---- MODULE Spec2Model ----
(***************************************************************************)
(* Verification model of the PDF RAG chat system: the parallel page        *)
(* extraction with its result combiner, and the web service's sessions,    *)
(* chat history and WebSocket protocol.                                    *)
(*                                                                         *)
(* Strings built by f-strings are modelled as records of their parts, so   *)
(* that two formatted names are equal exactly when their parts are.        *)
(***************************************************************************)
EXTENDS Integers, Sequences, FiniteSets, TLC

(***************************************************************************)
(* Bounds of the model.                                                    *)
(***************************************************************************)
MaxPages == 2
MaxSections == 2
MaxItems == 2
MaxUploads == 1
MaxSockets == 2
MaxWebTurns == 1
MaxTurns == 11
MaxActiveChannels == 1
MaxLlmTurns == 3

VARIABLES
    \* ---- ParallelPDFExtractor.extract ----
    total_pages,        \* len(page_files)
    worker_output,      \* page -> what process_single_page / its future yields
    pending,            \* futures as_completed has not yielded yet
    page_results,       \* list built by _process_pages_parallel, then sorted
    combined_metadata,  \* result of combine_page_results
    pc,                 \* position of extract(): "collecting" | "combined"
                        \* | "consolidated"
    completion_order,   \* pages in the order as_completed yielded them
    disk                \* the output directory: the page directories, the
                        \* files the workers wrote in them, and the files of
                        \* the document-level figures/ and tables/

extractVars == <<total_pages, worker_output, pending, page_results,
                 combined_metadata, pc, completion_order, disk>>

VARIABLES
    \* ---- web service (main.py) ----
    sessions,           \* the in-memory session map: document id -> record
    uploads_disk,       \* ids whose uploads/{id}.pdf exists
    extraction_disk,    \* id -> content of extractions/{id}/metadata.json
    issued,             \* number of document ids generated so far
    reply,              \* the request handled last and the answer it got
    exchanges,          \* per channel: exchanges answered since its history
                        \* was last empty
    ws                  \* socket -> the websocket_chat coroutine serving it

webVars == <<sessions, uploads_disk, extraction_disk, issued, reply, exchanges, ws>>

VARIABLES
    \* ---- chat CLI (chat_with_pdf.py) ----
    cli                 \* the PDFChatInterface and the position of its run()

VARIABLES
    \* ---- unified pipeline CLI (pdf_chat_pipeline.py) ----
    pipeline            \* the arguments, the files found and the position of
                        \* main() / PDFChatPipeline.run()

VARIABLES
    \* ---- bounding boxes and the single-page extractor ----
    bbox_call,          \* a call of a bounding-box operation: arguments, name
                        \* and the value returned
    element_pass        \* one run of element preprocessing and of
                        \* PDFElementExtractor._process_elements

toolVars == <<pipeline, bbox_call, element_pass>>

vars == <<extractVars, webVars, cli, toolVars>>

None == [kind |-> "None"]

\* an initialised RAGQuerySystem
RAGQuerySystem == [kind |-> "RAGQuerySystem"]

(***************************************************************************)
(* Formatted names.                                                        *)
(***************************************************************************)
fmt_id(prefix, n) == [prefix |-> prefix, n |-> n]

fmt_filename(page_num, kind, index, ext) ==
    [page |-> page_num, kind |-> kind, index |-> index, ext |-> ext]

fmt_path(dir, page_num, kind, index, ext) ==
    [dir |-> dir, page |-> page_num, kind |-> kind, index |-> index, ext |-> ext]

(***************************************************************************)
(* What one worker returns for its page.  Every worker sees a one-page     *)
(* PDF, so it numbers its figures and tables from 1 and names its files    *)
(* page1_...                                                               *)
(***************************************************************************)
LocalFigure(p, l) ==
    [index |-> l, id |-> fmt_id("figure_", l), page |-> p,
     filename |-> fmt_filename(1, "fig", l, "png"),
     path |-> fmt_path("figures", 1, "fig", l, "png")]

LocalTable(p, l) ==
    [index |-> l, id |-> fmt_id("table_", l), page |-> p,
     filename |-> fmt_filename(1, "table", l, "png"),
     path |-> fmt_path("tables", 1, "table", l, "png")]

\* The text of a section: one markdown image reference per figure and table
\* of it, and one CSV download link per table.
LocalText(s, nf, nt) ==
    [j \in 1..nf |-> fmt_path("figures", 1, "fig", (s - 1) * nf + j, "png")]
    \o [j \in 1..nt |-> fmt_path("tables", 1, "table", (s - 1) * nt + j, "png")]
    \o [j \in 1..nt |-> fmt_path("tables", 1, "table", (s - 1) * nt + j, "csv")]

LocalSection(p, s, nf, nt) ==
    [id |-> fmt_id("section_", s), index |-> s, page |-> p,
     figures |-> [j \in 1..nf |-> LocalFigure(p, (s - 1) * nf + j)],
     tables |-> [j \in 1..nt |-> LocalTable(p, (s - 1) * nt + j)],
     text_content |-> LocalText(s, nf, nt)]

\* process_single_page, success branch
PageSuccess(p, ns, nf, nt) ==
    [page |-> p, success |-> TRUE,
     metadata |-> [kind |-> "dict",
                   structure |-> [s \in 1..ns |-> LocalSection(p, s, nf, nt)]]]

\* process_single_page, except branch
PageFailure(p) ==
    [page |-> p, success |-> FALSE, error |-> "error", metadata |-> None]

\* _process_pages_parallel, except branch: future.result() raised
FutureFailure(p) ==
    [page |-> p, success |-> FALSE, error |-> "error"]

\* What may become of a page: its future raises, its worker catches an
\* exception, or it yields ns sections of nf figures and nt tables each.
PageFates ==
    {[fate |-> "future_raises"], [fate |-> "worker_fails"],
     [fate |-> "success", ns |-> 0, nf |-> 0, nt |-> 0]}
    \cup {[fate |-> "success", ns |-> ns, nf |-> nf, nt |-> nt] :
            ns \in 1..MaxSections,
            nf \in 0..MaxItems, nt \in 0..MaxItems}

WorkerOutput(p, f) ==
    CASE f.fate = "future_raises" -> FutureFailure(p)
      [] f.fate = "worker_fails" -> PageFailure(p)
      [] f.fate = "success" -> PageSuccess(p, f.ns, f.nf, f.nt)

(***************************************************************************)
(* ParallelResultCombiner                                                  *)
(***************************************************************************)
\* "not page_result['metadata']"
Falsy(metadata) == metadata.kind = "None"

\* mutant: the file name keeps the page-local index
renumber_figure_local(figure, page_num, figure_counter) ==
    [index |-> figure_counter,
     id |-> fmt_id("figure_", figure_counter),
     page |-> page_num,
     _page_local_index |-> figure.index,
     _global_index |-> figure_counter,
     filename |-> fmt_filename(page_num, "fig", figure.index, "png"),
     path |-> fmt_path("figures", page_num, "fig", figure.index, "png")]
    @@ figure

renumber_figure(figure, page_num, figure_counter) ==
    [index |-> figure_counter,
     id |-> fmt_id("figure_", figure_counter),
     page |-> page_num,
     _page_local_index |-> figure.index,
     _global_index |-> figure_counter,
     filename |-> fmt_filename(page_num, "fig", figure_counter, "png"),
     path |-> fmt_path("figures", page_num, "fig", figure_counter, "png")]
    @@ figure

renumber_table(table, page_num, table_counter) ==
    [index |-> table_counter,
     id |-> fmt_id("table_", table_counter),
     page |-> page_num,
     _page_local_index |-> table.index,
     _global_index |-> table_counter,
     filename |-> fmt_filename(page_num, "table", table_counter, "png"),
     path |-> fmt_path("tables", page_num, "table", table_counter, "png"),
     csv_path |-> fmt_path("tables", page_num, "table", table_counter, "csv")]
    @@ table

RECURSIVE renumber_figures(_, _, _)
renumber_figures(figures, page_num, figure_counter) ==
    IF figures = <<>> THEN <<>>
    ELSE <<renumber_figure(Head(figures), page_num, figure_counter + 1)>>
         \o renumber_figures(Tail(figures), page_num, figure_counter + 1)

RECURSIVE renumber_tables(_, _, _)
renumber_tables(tables, page_num, table_counter) ==
    IF tables = <<>> THEN <<>>
    ELSE <<renumber_table(Head(tables), page_num, table_counter + 1)>>
         \o renumber_tables(Tail(tables), page_num, table_counter + 1)

\* str.replace on a text of references
replace(text_content, old_ref, new_ref) ==
    [i \in 1..Len(text_content) |->
        IF text_content[i] = old_ref THEN new_ref ELSE text_content[i]]

RECURSIVE fix_refs(_, _, _, _, _)
fix_refs(text_content, items, page_num, dir, kind) ==
    IF items = <<>> THEN text_content
    ELSE fix_refs(replace(text_content,
                          fmt_path(dir, 1, kind, Head(items)._page_local_index, "png"),
                          fmt_path(dir, page_num, kind, Head(items)._global_index, "png")),
                  Tail(items), page_num, dir, kind)

fix_text_content_references(section) ==
    [section EXCEPT !.text_content =
        fix_refs(fix_refs(section.text_content, section.figures, section.page,
                          "figures", "fig"),
                 section.tables, section.page, "tables", "table")]

combine_section(st, section, page_num) ==
    LET section_counter == st.section_counter + 1
        renumbered ==
            [section EXCEPT
                !.id = fmt_id("section_", section_counter),
                !.index = section_counter,
                !.page = page_num,
                !.figures = renumber_figures(section.figures, page_num,
                                             st.figure_counter),
                !.tables = renumber_tables(section.tables, page_num,
                                           st.table_counter)]
    IN  [combined_structure |->
            Append(st.combined_structure, fix_text_content_references(renumbered)),
         section_counter |-> section_counter,
         figure_counter |-> st.figure_counter + Len(section.figures),
         table_counter |-> st.table_counter + Len(section.tables),
         total_figures |-> st.total_figures + Len(section.figures),
         total_tables |-> st.total_tables + Len(section.tables)]

RECURSIVE combine_sections(_, _, _)
combine_sections(st, structure, page_num) ==
    IF structure = <<>> THEN st
    ELSE combine_sections(combine_section(st, Head(structure), page_num),
                          Tail(structure), page_num)

SkipPage(page_result) ==
    ~page_result.success \/ Falsy(page_result.metadata)

combine_page(st, page_result) ==
    IF SkipPage(page_result) THEN st
    ELSE combine_sections(st, page_result.metadata.structure, page_result.page)

RECURSIVE combine_pages(_, _)
combine_pages(st, results) ==
    IF results = <<>> THEN st
    ELSE combine_pages(combine_page(st, Head(results)), Tail(results))

\* mutant: every page result counts as successful
count_all(results) == Len(results)

RECURSIVE count_success(_)
count_success(results) ==
    IF results = <<>> THEN 0
    ELSE (IF Head(results).success THEN 1 ELSE 0) + count_success(Tail(results))

combine_page_results(results) ==
    LET st == combine_pages([combined_structure |-> <<>>, section_counter |-> 0,
                             figure_counter |-> 0, table_counter |-> 0,
                             total_figures |-> 0, total_tables |-> 0], results)
    IN  [extraction_info |->
            [source_pdf |-> "pdf_name",
             total_pages |-> Len(results),
             successful_pages |-> count_success(results),
             total_figures |-> st.total_figures,
             total_tables |-> st.total_tables,
             total_sections |-> Len(st.combined_structure)],
         structure |-> st.combined_structure]

(***************************************************************************)
(* The output directory and consolidate_visual_elements                    *)
(***************************************************************************)
\* page_{p}/{dir}/{kind}{l}.{ext}: a file a worker wrote
page_path(p, dir, kind, l, ext) ==
    [page_dir |-> p, dir |-> dir, kind |-> kind, index |-> l, ext |-> ext]

\* what a document-level file holds: a copy of a worker's file, or what an
\* earlier extraction into the same directory left there
copy_of(source_file) == [origin |-> "copy", source |-> source_file]

stale == [origin |-> "earlier extraction"]

\* no output directory
NoDisk == [page_dirs |-> {}, page_files |-> {}, files |-> <<>>]

\* the figure or table records of a structure
items_of(structure, field) ==
    UNION {{structure[k][field][j] : j \in DOMAIN structure[k][field]} :
             k \in DOMAIN structure}

\* the files the worker of page p wrote: an image per figure record and per
\* table record, and table{l}.csv where the CSV export succeeded
WorkerFiles(p, result, csv_saved) ==
    IF SkipPage(result) THEN {}
    ELSE LET structure == result.metadata.structure
         IN  {page_path(p, "figures", "fig", f.index, "png") :
                f \in items_of(structure, "figures")}
             \cup {page_path(p, "tables", "table", t.index, "png") :
                     t \in items_of(structure, "tables")}
             \cup {page_path(p, "tables", "table", t.index, "csv") :
                     t \in {t \in items_of(structure, "tables") : csv_saved}}

\* the names an earlier extraction of a document of as many pages may have
\* left in figures/ and tables/
EarlierFiles(pages) ==
    {fmt_path("figures", p, "fig", g, "png") : p \in 1..pages, g \in 1..MaxItems}
    \cup {fmt_path("tables", p, "table", g, ext) :
            p \in 1..pages, g \in 1..MaxItems, ext \in {"png", "csv"}}

\* the directory when the as_completed loop starts: process_single_page made
\* page_{p} before it extracted (also the pages in made whose worker failed
\* later), setup_directories kept what figures/ and tables/ held
OutputDirectory(outputs, csv_saved, made, reused) ==
    [page_dirs |-> {p \in DOMAIN outputs : outputs[p].success} \cup made,
     page_files |-> UNION {WorkerFiles(p, outputs[p], csv_saved[p]) :
                             p \in DOMAIN outputs},
     files |-> IF reused
               THEN [f \in EarlierFiles(Len(outputs)) |-> stale]
               ELSE <<>>]

\* "if not new_path.exists(): shutil.copy2(source_file, new_path)", after
\* the glob found the source file
copy2(d, source_file, new_path) ==
    IF source_file \notin d.page_files \/ new_path \in DOMAIN d.files
    THEN d
    ELSE [d EXCEPT !.files = (new_path :> copy_of(source_file)) @@ d.files]

_copy_figure_files(d, figure, page_num) ==
    copy2(d, page_path(page_num, "figures", "fig", figure._page_local_index, "png"),
          fmt_path("figures", page_num, "fig", figure._global_index, "png"))

_copy_table_files(d, table, page_num) ==
    LET png == copy2(d, page_path(page_num, "tables", "table",
                                  table._page_local_index, "png"),
                     fmt_path("tables", page_num, "table", table._global_index, "png"))
    IN  copy2(png, page_path(page_num, "tables", "table",
                             table._page_local_index, "csv"),
              fmt_path("tables", page_num, "table", table._global_index, "csv"))

RECURSIVE copy_figures(_, _, _)
copy_figures(d, figures, page_num) ==
    IF figures = <<>> THEN d
    ELSE copy_figures(_copy_figure_files(d, Head(figures), page_num),
                      Tail(figures), page_num)

RECURSIVE copy_tables(_, _, _)
copy_tables(d, tables, page_num) ==
    IF tables = <<>> THEN d
    ELSE copy_tables(_copy_table_files(d, Head(tables), page_num),
                     Tail(tables), page_num)

\* mutant: the bookkeeping keys stay on the record
pop_nothing(item) == item

\* item.pop("_page_local_index", None); item.pop("_global_index", None)
pop(item) ==
    [k \in DOMAIN item \ {"_page_local_index", "_global_index"} |-> item[k]]

\* one iteration of the loop over the sections
consolidate_section(st, section) ==
    IF section.page \notin st.disk.page_dirs
    THEN [st EXCEPT !.structure = Append(@, section)]
    ELSE [disk |-> copy_tables(copy_figures(st.disk, section.figures, section.page),
                               section.tables, section.page),
          structure |-> Append(st.structure,
                [section EXCEPT
                    !.figures = [j \in DOMAIN section.figures |-> pop(section.figures[j])],
                    !.tables = [j \in DOMAIN section.tables |-> pop(section.tables[j])]])]

RECURSIVE consolidate_sections(_, _)
consolidate_sections(st, structure) ==
    IF structure = <<>> THEN st
    ELSE consolidate_sections(consolidate_section(st, Head(structure)),
                              Tail(structure))

consolidate_visual_elements(d, metadata) ==
    consolidate_sections([disk |-> d, structure |-> <<>>], metadata.structure)

(***************************************************************************)
(* Web service: state after import of main.py                              *)
(***************************************************************************)
DocIds == 1..MaxUploads

\* "sessions: Dict[str, Dict[str, Any]] = {}"
EmptyDict == <<>>

NoReply == [op |-> "none"]

Sockets == 1..MaxSockets

NoExchanges ==
    [post |-> [d \in DocIds |-> 0], ws |-> [s \in Sockets |-> 0], cli |-> 0]

\* PDFChatInterface.__init__
NewInterface ==
    [state |-> "start", rag |-> None, verbose |-> FALSE,
     conversation_history |-> <<>>]

\* no connection on this socket yet
NoSocket ==
    [state |-> "idle", doc |-> 0, collection_name |-> None, rag |-> None,
     conversation_history |-> <<>>, sent |-> <<>>, first |-> "none",
     last_in |-> "none"]

\* no pipeline process
NoPipeline ==
    [pc |-> "none", entry |-> "none", skip_extraction |-> FALSE,
     skip_indexing |-> FALSE, pdf_exists |-> FALSE, output |-> "absent",
     stages |-> <<>>]

\* no bounding-box call made
NoCall == [args |-> <<>>, call |-> "none", result |-> None]

\* no extraction pass started
NoPass ==
    [pc |-> "none", impl |-> "none", elements |-> <<>>, preprocessed |-> <<>>,
     figures |-> <<>>, tables |-> <<>>, emitted |-> <<>>, merged_indices |-> {}]

GeometryIdle ==
    /\ bbox_call = NoCall
    /\ element_pass = NoPass

ToolIdle ==
    /\ pipeline = NoPipeline
    /\ GeometryIdle

WebIdle ==
    /\ sessions = EmptyDict
    /\ uploads_disk = {}
    /\ extraction_disk = EmptyDict
    /\ issued = 0
    /\ reply = NoReply
    /\ exchanges = NoExchanges
    /\ ws = [s \in Sockets |-> NoSocket]
    /\ cli = NewInterface

(***************************************************************************)
(* ParallelPDFExtractor                                                    *)
(***************************************************************************)
\* list.sort(key=page): a stable insertion sort
RECURSIVE insert_by_page(_, _)
insert_by_page(sorted, r) ==
    IF sorted = <<>> THEN <<r>>
    ELSE IF Head(sorted).page <= r.page
         THEN <<Head(sorted)>> \o insert_by_page(Tail(sorted), r)
         ELSE <<r>> \o sorted

\* mutant: the results stay in completion order
sort_skipped(results) == results

RECURSIVE sort_by_page(_)
sort_by_page(results) ==
    IF results = <<>> THEN <<>>
    ELSE insert_by_page(sort_by_page(SubSeq(results, 1, Len(results) - 1)),
                        results[Len(results)])

\* the as_completed loop has yielded every future
AllCollected == pending = {}

InitExtract ==
    /\ total_pages \in 1..MaxPages
    /\ \E fates \in [1..total_pages -> {f \in PageFates :
                                          f.fate = "success" => f.nf + f.nt <= MaxItems}] :
          worker_output = [p \in 1..total_pages |-> WorkerOutput(p, fates[p])]
    /\ pending = 1..total_pages
    /\ page_results = <<>>
    /\ combined_metadata = None
    /\ pc = "collecting"
    /\ completion_order = <<>>
    /\ disk = OutputDirectory(worker_output, [p \in 1..total_pages |-> TRUE],
                              {}, FALSE)
    /\ WebIdle
    /\ ToolIdle

\* one iteration of "for future in as_completed(future_to_task)"
CollectResult(p) ==
    /\ pc = "collecting"
    /\ p \in pending
    /\ pending' = pending \ {p}
    /\ page_results' = Append(page_results, worker_output[p])
    /\ completion_order' = Append(completion_order, p)
    /\ UNCHANGED <<total_pages, worker_output, combined_metadata, pc, disk>>
    /\ UNCHANGED <<webVars, cli, toolVars>>

\* extract(): sort the collected results by page, then combine them
Combine ==
    /\ pc = "collecting"
    /\ AllCollected
    /\ page_results' = sort_by_page(page_results)
    /\ combined_metadata' = combine_page_results(page_results')
    /\ pc' = "combined"
    /\ UNCHANGED <<total_pages, worker_output, pending, completion_order, disk>>
    /\ UNCHANGED <<webVars, cli, toolVars>>

NextExtract ==
    \/ \E p \in 1..MaxPages : CollectResult(p)
    \/ Combine

SpecExtract == InitExtract /\ [][NextExtract]_vars

\* What may become of a page and of its directory: the page fails with or
\* without page_{p} made, or it yields ns sections of at most one figure and
\* one table each, the CSV exports of its tables succeeding or not.
DirectoryFates ==
    {[fate |-> f, made |-> m, csv_saved |-> FALSE] :
        f \in {"future_raises", "worker_fails"}, m \in BOOLEAN}
    \cup {[fate |-> "success", ns |-> ns, nf |-> nf, nt |-> nt,
            made |-> TRUE, csv_saved |-> c] :
            ns \in 0..MaxSections, nf \in 0..1, nt \in 0..1, c \in BOOLEAN}

InitConsolidate ==
    /\ total_pages \in 1..MaxPages
    /\ \E fates \in [1..total_pages ->
                        {f \in DirectoryFates :
                            /\ f.fate = "success" /\ f.ns = 0 => f.nf + f.nt = 0
                            /\ f.fate = "success" /\ f.nt = 0 => f.csv_saved}],
          reused \in BOOLEAN :
          /\ worker_output = [p \in 1..total_pages |-> WorkerOutput(p, fates[p])]
          /\ disk = OutputDirectory(worker_output,
                                    [p \in 1..total_pages |-> fates[p].csv_saved],
                                    {p \in 1..total_pages : fates[p].made}, reused)
    /\ pending = 1..total_pages
    /\ page_results = <<>>
    /\ combined_metadata = None
    /\ pc = "collecting"
    /\ completion_order = <<>>
    /\ WebIdle
    /\ ToolIdle

\* extract(): copy the workers' files under their global names
Consolidate ==
    /\ pc = "combined"
    /\ LET st == consolidate_visual_elements(disk, combined_metadata)
       IN  /\ disk' = st.disk
           /\ combined_metadata' = [combined_metadata EXCEPT !.structure = st.structure]
    /\ pc' = "consolidated"
    /\ UNCHANGED <<total_pages, worker_output, pending, page_results,
                   completion_order>>
    /\ UNCHANGED <<webVars, cli, toolVars>>

NextConsolidate ==
    \/ \E p \in 1..MaxPages : CollectResult(p)
    \/ Combine
    \/ Consolidate

SpecConsolidate == InitConsolidate /\ [][NextConsolidate]_vars

(***************************************************************************)
(* Web service: HTTP handlers                                              *)
(***************************************************************************)
\* dict.get(key, default)
get(dict, key, default) == IF key \in DOMAIN dict THEN dict[key] ELSE default

\* the map without one key ("del sessions[document_id]")
without(dict, key) == [k \in DOMAIN dict \ {key} |-> dict[k]]

\* the elements of a set of numbers in ascending order
RECURSIVE sorted(_)
sorted(S) ==
    IF S = {} THEN <<>>
    ELSE LET least == CHOOSE x \in S : \A y \in S : x <= y
         IN  <<least>> \o sorted(S \ {least})

\* file names a client may send
Filenames ==
    {[stem |-> "doc", suffix |-> ".pdf"],
     [stem |-> "doc", suffix |-> ".PDF"],
     [stem |-> "doc", suffix |-> ".txt"]}

\* file.filename.endswith('.pdf')
EndsWithPdf(filename) == filename.suffix = ".pdf"

\* The PDFs a client may upload: MaxPages pages of one section with one
\* figure and one table each, of which the page "failing" (0: none) fails in
\* its worker.
UploadedPdfs == {[pages |-> MaxPages, failing |-> f] : f \in 0..1}

\* extractor.extract() of an uploaded PDF
extract(pdf) ==
    combine_page_results(sort_by_page(
        [p \in 1..pdf.pages |->
            IF p = pdf.failing THEN PageFailure(p) ELSE PageSuccess(p, 1, 1, 1)]))

\* indexer.index_from_metadata(): one document per section, figure and table
index_from_metadata(metadata) ==
    [total_documents |-> metadata.extraction_info.total_sections
                         + metadata.extraction_info.total_figures
                         + metadata.extraction_info.total_tables]

upload_path(document_id) == [dir |-> "uploads", id |-> document_id, suffix |-> ".pdf"]

extraction_dir(document_id) == [dir |-> "extractions", id |-> document_id]

collection_name(document_id) == [prefix |-> "doc_", id |-> document_id]

session_record(document_id, filename, extraction_summary, indexing_stats) ==
    [document_id |-> document_id,
     filename |-> filename,
     upload_path |-> upload_path(document_id),
     extraction_dir |-> extraction_dir(document_id),
     collection_name |-> collection_name(document_id),
     extraction_summary |-> extraction_summary,
     indexing_stats |-> indexing_stats]

\* mutant: the session is stored before extraction and indexing are done
store_session_first(map, outcome, record) ==
    (record.document_id :> record) @@ map

\* the session map after the try block of upload_pdf
store_session(map, outcome, record) ==
    IF outcome = "ok" THEN (record.document_id :> record) @@ map ELSE map

UploadOutcomes == {"ok", "extract_raises", "index_raises"}

\* POST /upload-pdf
upload_pdf(filename, pdf, outcome) ==
    IF ~EndsWithPdf(filename)
    THEN /\ reply' = [op |-> "upload_pdf", status |-> 400, filename |-> filename,
                      detail |-> "Only PDF files are allowed"]
         /\ UNCHANGED <<sessions, uploads_disk, extraction_disk, issued, exchanges, ws>>
         /\ UNCHANGED <<extractVars, cli, toolVars>>
    ELSE LET document_id == issued + 1
             extraction_summary == extract(pdf)
             indexing_stats == index_from_metadata(extraction_summary)
         IN  /\ issued < MaxUploads
             /\ issued' = document_id
             /\ uploads_disk' = uploads_disk \cup {document_id}
             /\ extraction_disk' =
                  (document_id :> (IF outcome = "extract_raises" THEN None
                                   ELSE extraction_summary)) @@ extraction_disk
             /\ sessions' = store_session(sessions, outcome,
                                session_record(document_id, filename,
                                               extraction_summary, indexing_stats))
             /\ reply' =
                  IF outcome = "ok"
                  THEN [op |-> "upload_pdf", status |-> 200,
                        document_id |-> document_id, filename |-> filename,
                        chunks_processed |-> indexing_stats.total_documents]
                  ELSE [op |-> "upload_pdf", status |-> 500, filename |-> filename,
                        detail |-> [prefix |-> "Processing failed: ", e |-> outcome]]
             /\ UNCHANGED <<exchanges, ws>>
             /\ UNCHANGED <<extractVars, cli, toolVars>>

RECURSIVE total_text(_)
total_text(sections) ==
    IF sections = <<>> THEN 0
    ELSE Len(get(Head(sections), "text", <<>>)) + total_text(Tail(sections))

pages_of(sections) ==
    sorted({sections[i].page_number :
              i \in {j \in 1..Len(sections) : "page_number" \in DOMAIN sections[j]}})

\* the body of get_document_info for a known id
document_info(document_id) ==
    LET session == sessions[document_id]
        summary == get(session, "extraction_summary", EmptyDict)
        indexing_stats == get(session, "indexing_stats", EmptyDict)
        exists == /\ document_id \in DOMAIN extraction_disk
                  /\ extraction_disk[document_id] # None
        scanned == IF exists
                   THEN get(extraction_disk[document_id], "sections", <<>>)
                   ELSE <<>>
        pages_list == pages_of(scanned)
    IN  [op |-> "get_document_info", id |-> document_id, status |-> 200,
         document_id |-> document_id,
         total_chunks |-> get(indexing_stats, "total_documents", 0),
         total_pages |-> get(summary, "total_pages", 0),
         total_text_length |-> total_text(scanned),
         total_images |-> get(summary, "total_figures", 0)
                          + get(summary, "total_tables", 0),
         pages |-> IF pages_list = <<>> /\ get(summary, "total_pages", 0) > 0
                   THEN [i \in 1..get(summary, "total_pages", 0) |-> i]
                   ELSE pages_list]

not_found(op, document_id, detail) ==
    [op |-> op, id |-> document_id, status |-> 404, detail |-> detail]

\* GET /document/{document_id}/info
get_document_info(document_id) ==
    /\ reply' = IF document_id \notin DOMAIN sessions
                THEN not_found("get_document_info", document_id, "Document not found")
                ELSE document_info(document_id)
    /\ UNCHANGED <<sessions, uploads_disk, extraction_disk, issued, exchanges, ws>>
         /\ UNCHANGED <<extractVars, cli, toolVars>>

\* GET /pdf/{document_id}
get_pdf(document_id) ==
    /\ reply' = IF document_id \notin DOMAIN sessions
                THEN not_found("get_pdf", document_id, "Document not found")
                ELSE IF sessions[document_id].upload_path.id \notin uploads_disk
                THEN not_found("get_pdf", document_id, "PDF file not found")
                ELSE [op |-> "get_pdf", id |-> document_id, status |-> 200,
                      file |-> sessions[document_id].upload_path,
                      filename |-> sessions[document_id].filename]
    /\ UNCHANGED <<sessions, uploads_disk, extraction_disk, issued, exchanges, ws>>
         /\ UNCHANGED <<extractVars, cli, toolVars>>

user_entry(n) == [role |-> "user", content |-> [question |-> n]]

assistant_entry(n) == [role |-> "assistant", content |-> [answer |-> n]]

HistoryCap == 20

\* mutant: the oldest entries are kept
chat_keep_oldest(history) ==
    IF Len(history) > HistoryCap THEN SubSeq(history, 1, HistoryCap) ELSE history

\* "if len(history) > 20: history = history[-20:]" of chat
chat_keep_manageable(history) ==
    IF Len(history) > HistoryCap
    THEN SubSeq(history, Len(history) - HistoryCap + 1, Len(history))
    ELSE history

\* "Error calling LLM: {e}"
llm_error(n) == [prefix |-> "Error calling LLM: ", e |-> n]

\* the references built from the retrieved contexts
references_of(n) == <<[id |-> [prefix |-> "text_", i |-> 0], question |-> n]>>

\* mutant: a failing chat-completion call propagates to the caller
query_raises_llm(outcome) == outcome \in {"query_raises", "llm_raises"}

\* whether RAGQuerySystem.query raises: retrieve_context runs outside the
\* try, the chat-completion call inside it
query_raises(outcome) == outcome = "query_raises"

\* the value RAGQuerySystem.query returns for the n-th question
query(n, outcome, return_references) ==
    IF outcome = "llm_raises"
    THEN IF return_references THEN <<llm_error(n), <<>>>> ELSE llm_error(n)
    ELSE IF return_references THEN <<[answer |-> n], references_of(n)>>
         ELSE [answer |-> n]

ChatOutcomes == {"ok", "init_raises", "query_raises"}

\* the outcomes of a request when the chat-completion call may fail too
LlmOutcomes == {"ok", "llm_raises", "query_raises"}

\* POST /chat; the message is the session's next question
chat(document_id, outcome) ==
    IF document_id \notin DOMAIN sessions
    THEN /\ reply' = not_found("chat", document_id, "Document not found")
                     @@ [queried |-> FALSE]
         /\ UNCHANGED <<sessions, uploads_disk, extraction_disk, issued, exchanges, ws>>
         /\ UNCHANGED <<extractVars, cli, toolVars>>
    ELSE LET session == sessions[document_id]
             n == exchanges.post[document_id] + 1
             conversation_history == get(session, "conversation_history", <<>>)
             answered == outcome # "init_raises" /\ ~query_raises(outcome)
             result == query(n, outcome, TRUE)
             answer == result[1]
             references == result[2]
             updated == chat_keep_manageable(
                           Append(Append(conversation_history, user_entry(n)),
                                  [role |-> "assistant", content |-> answer]))
         IN  /\ sessions' =
                  [sessions EXCEPT ![document_id] =
                      IF outcome = "init_raises" THEN session
                      ELSE [conversation_history |->
                              IF answered THEN updated
                              ELSE conversation_history] @@ session]
             /\ exchanges' =
                  IF answered
                  THEN [exchanges EXCEPT !.post[document_id] = n]
                  ELSE exchanges
             /\ reply' =
                  IF answered
                  THEN [op |-> "chat", id |-> document_id, status |-> 200,
                        response |-> answer, references |-> references,
                        queried |-> TRUE, llm_failed |-> (outcome = "llm_raises"),
                        handed |-> conversation_history]
                  ELSE [op |-> "chat", id |-> document_id, status |-> 500,
                        detail |-> [prefix |-> "Chat failed: ", e |-> outcome],
                        queried |-> (outcome # "init_raises"),
                        llm_failed |-> (outcome = "llm_raises")]
             /\ UNCHANGED <<uploads_disk, extraction_disk, issued, ws>>
             /\ UNCHANGED <<extractVars, cli, toolVars>>

\* mutant: the record is dropped before the files are removed
delete_record_first(map, document_id, outcome) == without(map, document_id)

\* the session map after the try block of delete_session
delete_record(map, document_id, outcome) ==
    IF outcome = "ok" THEN without(map, document_id) ELSE map

DeleteOutcomes == {"ok", "unlink_raises", "rmtree_raises"}

\* DELETE /session/{document_id}
delete_session(document_id, outcome) ==
    IF document_id \notin DOMAIN sessions
    THEN /\ reply' = not_found("delete_session", document_id, "Session not found")
         /\ UNCHANGED <<sessions, uploads_disk, extraction_disk, issued, exchanges, ws>>
         /\ UNCHANGED <<extractVars, cli, toolVars>>
    ELSE LET session == sessions[document_id]
             file == session.upload_path.id
             dir == session.extraction_dir.id
         IN  \* an operation can raise only if it is attempted
             /\ outcome = "unlink_raises" => file \in uploads_disk
             /\ outcome = "rmtree_raises" => dir \in DOMAIN extraction_disk
             /\ uploads_disk' =
                  IF outcome = "unlink_raises" THEN uploads_disk
                  ELSE uploads_disk \ {file}
             /\ extraction_disk' =
                  IF outcome = "ok" THEN without(extraction_disk, dir)
                  ELSE extraction_disk
             /\ sessions' = delete_record(sessions, document_id, outcome)
             /\ reply' =
                  IF outcome = "ok"
                  THEN [op |-> "delete_session", id |-> document_id, status |-> 200,
                        message |-> "Session deleted successfully"]
                  ELSE [op |-> "delete_session", id |-> document_id, status |-> 500,
                        detail |-> [prefix |-> "Failed to delete session: ",
                                    e |-> outcome]]
             /\ UNCHANGED <<issued, exchanges, ws>>
             /\ UNCHANGED <<extractVars, cli, toolVars>>

\* GET /sessions
list_sessions ==
    /\ reply' = [op |-> "list_sessions", status |-> 200,
                 sessions |-> [i \in 1..Cardinality(DOMAIN sessions) |->
                                 LET doc_id == sorted(DOMAIN sessions)[i]
                                 IN  [document_id |-> doc_id,
                                      filename |-> sessions[doc_id].filename]]]
    /\ UNCHANGED <<sessions, uploads_disk, extraction_disk, issued, exchanges, ws>>
         /\ UNCHANGED <<extractVars, cli, toolVars>>

\* mutant: the uploaded files are counted instead of the sessions
active_uploads(map) == Cardinality(uploads_disk)

\* len(sessions)
active_sessions(map) == Cardinality(DOMAIN map)

\* GET /health
health_check ==
    /\ reply' = [op |-> "health_check", status |-> 200, health |-> "healthy",
                 active_sessions |-> active_sessions(sessions)]
    /\ UNCHANGED <<sessions, uploads_disk, extraction_disk, issued, exchanges, ws>>
         /\ UNCHANGED <<extractVars, cli, toolVars>>

\* GET /
root ==
    /\ reply' = [op |-> "root", status |-> 200,
                 message |-> "PDF RAG Chat API is running"]
    /\ UNCHANGED <<sessions, uploads_disk, extraction_disk, issued, exchanges, ws>>
         /\ UNCHANGED <<extractVars, cli, toolVars>>

(***************************************************************************)
(* Web service: the WebSocket handler websocket_chat                       *)
(***************************************************************************)
ws_message(type, message) == [type |-> type, message |-> message]

ws_event(s, event, document_id) ==
    [op |-> "websocket_chat", socket |-> s, event |-> event, id |-> document_id]

\* mutant: the socket of an unknown document is left open
leave_unknown_open(document_id) ==
    [NoSocket EXCEPT
        !.state = "open", !.doc = document_id,
        !.sent = <<ws_message("error", "Document not found")>>,
        !.first = "error"]

\* "if document_id not in sessions": one error message, close, return
reject_unknown(document_id) ==
    [NoSocket EXCEPT
        !.state = "closed", !.doc = document_id,
        !.sent = <<ws_message("error", "Document not found")>>,
        !.first = "error"]

ConnectOutcomes == {"ok", "init_raises"}

\* mutant: the socket starts from the history stored in the session
initial_history_of_session(session) == get(session, "conversation_history", <<>>)

\* "conversation_history = []" of websocket_chat
initial_history(session) == <<>>

\* accept() up to the first receive_json()
websocket_accept(s, document_id, outcome) ==
    /\ ws[s].state \in {"idle", "closed"}
    /\ ws' = [ws EXCEPT ![s] =
         IF document_id \notin DOMAIN sessions
         THEN reject_unknown(document_id)
         ELSE IF outcome = "init_raises"
         THEN [NoSocket EXCEPT
                 !.state = "closed", !.doc = document_id,
                 !.collection_name = sessions[document_id].collection_name,
                 !.sent = <<ws_message("error", "Failed to initialize chat")>>,
                 !.first = "error"]
         ELSE [NoSocket EXCEPT
                 !.state = "open", !.doc = document_id,
                 !.collection_name = sessions[document_id].collection_name,
                 !.rag = RAGQuerySystem,
                 !.conversation_history = initial_history(sessions[document_id]),
                 !.sent = <<ws_message("connected", "Connected to chat")>>,
                 !.first = "connected"]]
    /\ exchanges' = [exchanges EXCEPT !.ws[s] = 0]
    /\ reply' = ws_event(s, "accept", document_id)
    /\ UNCHANGED <<sessions, uploads_disk, extraction_disk, issued>>
    /\ UNCHANGED <<extractVars, cli, toolVars>>

\* mutant: a reset leaves the history as it is
reset_forgotten(history) == history

\* "conversation_history = []" on a reset message
reset_history(history) == <<>>

ClientMessages == {"chat", "reset", "other", "invalid", "disconnect"}

\* receive_json() and what follows up to the next await
websocket_receive(s, data) ==
    /\ ws[s].state = "open"
    /\ ws' = [ws EXCEPT ![s] =
         CASE data = "chat" ->
                [@ EXCEPT !.state = "processing", !.last_in = data,
                          !.sent = <<ws_message("processing", "Thinking...")>>]
           [] data = "reset" ->
                [@ EXCEPT !.last_in = data,
                          !.conversation_history = reset_history(@),
                          !.sent = <<ws_message("reset", "Conversation reset")>>]
           [] data = "other" ->
                [@ EXCEPT !.last_in = data, !.sent = <<>>]
           [] data = "invalid" ->
                [@ EXCEPT !.last_in = data,
                          !.sent = <<ws_message("error", "Error")>>]
           [] data = "disconnect" ->
                [@ EXCEPT !.state = "closed", !.last_in = data, !.sent = <<>>]]
    /\ exchanges' = IF data = "reset" THEN [exchanges EXCEPT !.ws[s] = 0]
                    ELSE exchanges
    /\ reply' = ws_event(s, data, ws[s].doc)
    /\ UNCHANGED <<sessions, uploads_disk, extraction_disk, issued>>
    /\ UNCHANGED <<extractVars, cli, toolVars>>

\* "if len(history) > 20: history = history[-20:]" of websocket_chat
ws_keep_manageable(history) ==
    IF Len(history) > HistoryCap
    THEN SubSeq(history, Len(history) - HistoryCap + 1, Len(history))
    ELSE history

QueryOutcomes == {"ok", "query_raises"}

\* rag.query() for the chat message read, and the push of its result
websocket_query(s, outcome) ==
    /\ ws[s].state = "processing"
    /\ LET n == exchanges.ws[s] + 1
           history == ws[s].conversation_history
           result == query(n, outcome, TRUE)
           answer == result[1]
           references == result[2]
       IN  /\ ws' = [ws EXCEPT ![s] =
                IF ~query_raises(outcome)
                THEN [@ EXCEPT
                        !.state = "open",
                        !.conversation_history =
                            ws_keep_manageable(
                                Append(Append(history, user_entry(n)),
                                       [role |-> "assistant", content |-> answer])),
                        !.sent = Append(@, ws_message("response", answer)
                                           @@ [references |-> references])]
                ELSE [@ EXCEPT
                        !.state = "open",
                        !.sent = Append(@, ws_message("error",
                                              [prefix |-> "Error: ", e |-> outcome]))]]
           /\ exchanges' = IF ~query_raises(outcome)
                           THEN [exchanges EXCEPT !.ws[s] = n]
                           ELSE exchanges
    /\ reply' = ws_event(s, "query", ws[s].doc)
                 @@ [handed |-> ws[s].conversation_history,
                     llm_failed |-> (outcome = "llm_raises")]
    /\ UNCHANGED <<sessions, uploads_disk, extraction_disk, issued>>
    /\ UNCHANGED <<extractVars, cli, toolVars>>

(***************************************************************************)
(* Interactive chat CLI: PDFChatInterface.run                              *)
(***************************************************************************)
\* lines typed at the prompt
Lines ==
    {"", "  ", "quit", "exit", "q", "QUIT", " help ", "help", "clear", "status",
     "verbose", "reset", "Reset", "history", "question", "quit now"}

\* str.strip()
strip(line) ==
    CASE line = "  " -> ""
      [] line = " help " -> "help"
      [] OTHER -> line

\* str.lower()
lower(line) ==
    CASE line = "QUIT" -> "quit"
      [] line = "Reset" -> "reset"
      [] OTHER -> line

\* mutant: a command is recognised at the start of the line
first_word(line) ==
    CASE line = "quit now" -> "quit"
      [] OTHER -> lower(line)

\* the text the command tests of run() compare: user_input.lower()
command_of(line) == lower(line)

Commands ==
    {"quit", "exit", "q", "help", "clear", "status", "verbose", "reset", "history"}

\* a line that reaches "# Process query"
is_query(line) == strip(line) # "" /\ command_of(strip(line)) \notin Commands

\* "if not self.rag: if not self.initialize(): return"
cli_start(outcome) ==
    /\ cli.state = "start"
    /\ cli' = IF outcome = "ok"
              THEN [cli EXCEPT !.state = "running", !.rag = RAGQuerySystem]
              ELSE [cli EXCEPT !.state = "ended"]
    /\ reply' = [op |-> "cli", event |-> "start", queried |-> FALSE]
    /\ UNCHANGED <<sessions, uploads_disk, extraction_disk, issued, exchanges, ws>>
    /\ UNCHANGED <<extractVars, toolVars>>

\* "if len(history) > 20: history = history[-20:]" of run
cli_keep_manageable(history) ==
    IF Len(history) > HistoryCap
    THEN SubSeq(history, Len(history) - HistoryCap + 1, Len(history))
    ELSE history

CliOutcomes == {"ok", "query_raises", "interrupt"}

\* one pass of the "while True" loop of run
cli_line(line, outcome) ==
    /\ cli.state = "running"
    /\ LET user_input == strip(line)
           n == exchanges.cli + 1
           history == cli.conversation_history
           is_question ==
               /\ outcome # "interrupt"
               /\ is_query(line)
       IN  /\ cli' =
                CASE outcome = "interrupt" -> [cli EXCEPT !.state = "ended"]
                  [] outcome # "interrupt" /\ user_input = "" -> cli
                  [] outcome # "interrupt" /\ command_of(user_input) \in {"quit", "exit", "q"} ->
                        [cli EXCEPT !.state = "ended"]
                  [] outcome # "interrupt"
                     /\ command_of(user_input) \in {"help", "clear", "status", "history"} -> cli
                  [] outcome # "interrupt" /\ command_of(user_input) = "verbose" ->
                        [cli EXCEPT !.verbose = ~cli.verbose]
                  [] outcome # "interrupt" /\ command_of(user_input) = "reset" ->
                        [cli EXCEPT !.conversation_history = <<>>]
                  [] is_question /\ outcome = "ok" ->
                        [cli EXCEPT
                            !.conversation_history =
                                cli_keep_manageable(
                                    Append(Append(history, user_entry(n)),
                                           assistant_entry(n)))]
                  [] is_question /\ outcome = "query_raises" -> cli
           /\ exchanges' =
                IF outcome # "interrupt" /\ command_of(user_input) = "reset"
                THEN [exchanges EXCEPT !.cli = 0]
                ELSE IF is_question /\ outcome = "ok"
                THEN [exchanges EXCEPT !.cli = n]
                ELSE exchanges
           /\ reply' =
                IF is_question
                THEN [op |-> "cli", event |-> "line", line |-> line,
                      queried |-> TRUE, handed |-> history,
                      n_results |-> IF cli.verbose THEN 5 ELSE 3,
                      raised |-> (outcome = "query_raises")]
                ELSE IF outcome = "interrupt"
                THEN [op |-> "cli", event |-> "interrupt", queried |-> FALSE]
                ELSE [op |-> "cli", event |-> "line", line |-> line,
                      queried |-> FALSE]
    /\ UNCHANGED <<sessions, uploads_disk, extraction_disk, issued, ws>>
    /\ UNCHANGED <<extractVars, toolVars>>

\* chat turns answered so far on all channels
TotalTurns ==
    LET RECURSIVE Sum(_, _)
        Sum(f, S) == IF S = {} THEN 0
                     ELSE LET x == CHOOSE y \in S : TRUE
                          IN  f[x] + Sum(f, S \ {x})
    IN  Sum(exchanges.post, DocIds) + Sum(exchanges.ws, Sockets) + exchanges.cli

Channels ==
    {[kind |-> "post", id |-> d] : d \in DocIds}
    \cup {[kind |-> "ws", id |-> s] : s \in Sockets}
    \cup {[kind |-> "cli", id |-> 0]}

Answered(c) ==
    CASE c.kind = "post" -> exchanges.post[c.id]
      [] c.kind = "ws" -> exchanges.ws[c.id]
      [] c.kind = "cli" -> exchanges.cli

\* the bound on conversations: at most `turns` answered exchanges in all, in
\* at most MaxActiveChannels channels at a time
MayAsk(c, turns) ==
    /\ TotalTurns < turns
    /\ Cardinality({o \in Channels \ {c} : Answered(o) > 0}) < MaxActiveChannels

ExtractIdle ==
    /\ total_pages = 0
    /\ worker_output = <<>>
    /\ pending = {}
    /\ page_results = <<>>
    /\ combined_metadata = None
    /\ pc = "idle"
    /\ completion_order = <<>>
    /\ disk = NoDisk

InitWeb == ExtractIdle /\ WebIdle /\ ToolIdle

NextWeb ==
    \/ \E f \in Filenames, pdf \in UploadedPdfs, o \in UploadOutcomes :
          \* a rejected upload reads neither the file nor an outcome
          /\ ~EndsWithPdf(f) => (pdf.failing = 0 /\ o = "ok")
          /\ upload_pdf(f, pdf, o)
    \/ \E d \in DocIds : get_document_info(d)
    \/ \E d \in DocIds : get_pdf(d)
    \/ \E d \in DocIds, o \in ChatOutcomes :
          /\ d \in DOMAIN sessions => MayAsk([kind |-> "post", id |-> d], MaxWebTurns)
          /\ chat(d, o)
    \/ \E d \in DocIds, o \in DeleteOutcomes : delete_session(d, o)
    \/ list_sessions
    \/ health_check
    \/ root
    \* one WebSocket client
    \/ \E d \in DocIds, o \in ConnectOutcomes : websocket_accept(1, d, o)
    \/ \E data \in ClientMessages :
          /\ data = "chat" => MayAsk([kind |-> "ws", id |-> 1], MaxWebTurns)
          /\ websocket_receive(1, data)
    \/ \E o \in QueryOutcomes : websocket_query(1, o)

SpecWeb == InitWeb /\ [][NextWeb]_vars

\* The service after one successful upload, and a chat CLI about to run.
ChatPdf == [pages |-> MaxPages, failing |-> 0]

InitChat ==
    /\ ExtractIdle
    /\ sessions = store_session(EmptyDict, "ok",
                     session_record(1, [stem |-> "doc", suffix |-> ".pdf"],
                                    extract(ChatPdf),
                                    index_from_metadata(extract(ChatPdf))))
    /\ uploads_disk = {1}
    /\ extraction_disk = (1 :> extract(ChatPdf))
    /\ issued = 1
    /\ reply = NoReply
    /\ exchanges = NoExchanges
    /\ ws = [s \in Sockets |-> NoSocket]
    /\ cli = NewInterface
    /\ ToolIdle

NextChat ==
    \/ \E o \in ChatOutcomes :
          MayAsk([kind |-> "post", id |-> 1], MaxTurns) /\ chat(1, o)
    \/ \E o \in ConnectOutcomes : websocket_accept(1, 1, o)
    \/ \E data \in ClientMessages :
          /\ data = "chat" => MayAsk([kind |-> "ws", id |-> 1], MaxTurns)
          /\ websocket_receive(1, data)
    \/ \E o \in QueryOutcomes : websocket_query(1, o)
    \/ \E o \in {"ok", "init_raises"} : cli_start(o)
    \/ \E line \in Lines, o \in CliOutcomes :
          /\ is_query(line) => MayAsk([kind |-> "cli", id |-> 0], MaxTurns)
          /\ cli_line(line, o)

SpecChat == InitChat /\ [][NextChat]_vars

\* The same service with POST /chat and every socket on the one document,
\* their requests and messages interleaved, up to MaxSharedTurns exchanges
\* in the histories at a time.
MaxSharedTurns == 3

NextShared ==
    \/ \E o \in ChatOutcomes : TotalTurns < MaxSharedTurns /\ chat(1, o)
    \/ \E s \in Sockets, o \in ConnectOutcomes : websocket_accept(s, 1, o)
    \/ \E s \in Sockets, data \in ClientMessages :
          /\ data = "chat" => TotalTurns < MaxSharedTurns
          /\ websocket_receive(s, data)
    \/ \E s \in Sockets, o \in QueryOutcomes : websocket_query(s, o)

SpecShared == InitChat /\ [][NextShared]_vars

\* The same service when the chat-completion call may fail.
NextLlm ==
    \/ \E o \in LlmOutcomes \cup {"init_raises"} :
          MayAsk([kind |-> "post", id |-> 1], MaxLlmTurns) /\ chat(1, o)
    \/ \E o \in ConnectOutcomes : websocket_accept(1, 1, o)
    \/ \E data \in ClientMessages :
          /\ data = "chat" => MayAsk([kind |-> "ws", id |-> 1], MaxLlmTurns)
          /\ websocket_receive(1, data)
    \/ \E o \in LlmOutcomes : websocket_query(1, o)

SpecLlm == InitChat /\ [][NextLlm]_vars

(***************************************************************************)
(* Unified pipeline CLI: pdf_chat_pipeline.py                              *)
(***************************************************************************)
\* the output directory: missing, present without metadata.json, or complete
OutputStates == {"absent", "empty", "complete"}

\* a process entering main() with its parsed arguments, or a caller of
\* PDFChatPipeline.run() on a constructed pipeline
PipelineStarts ==
    {[pc |-> "main", entry |-> "main", skip_extraction |-> se,
      skip_indexing |-> si, pdf_exists |-> pe, output |-> out,
      stages |-> <<>>] :
        se \in BOOLEAN, si \in BOOLEAN, pe \in BOOLEAN, out \in OutputStates}
    \cup
    {[pc |-> "extract", entry |-> "run", skip_extraction |-> FALSE,
      skip_indexing |-> FALSE, pdf_exists |-> TRUE, output |-> out,
      stages |-> <<>>] : out \in OutputStates}

\* main(): the branch on the skip flags, the construction of the pipeline
\* and the check of the output directory
pipeline_main ==
    /\ pipeline.pc = "main"
    /\ pipeline' =
         [pipeline EXCEPT !.pc =
            IF pipeline.skip_extraction /\ pipeline.skip_indexing THEN "chat"
            ELSE IF ~pipeline.pdf_exists THEN "raised"
            ELSE IF pipeline.skip_extraction
                 THEN IF pipeline.output = "absent" THEN "returned" ELSE "index"
                 ELSE "extract"]
    /\ UNCHANGED <<extractVars, webVars, cli, bbox_call, element_pass>>

StageOutcomes == {"ok", "raises"}

\* pipeline.extract_pdf() and the test of its result
extract_pdf(outcome) ==
    /\ pipeline.pc = "extract"
    /\ pipeline' =
         [pipeline EXCEPT
            !.stages = Append(@, [stage |-> "extract", ok |-> (outcome = "ok")]),
            !.output = IF outcome = "ok" THEN "complete" ELSE @,
            !.pc = IF outcome = "ok" THEN "index" ELSE "returned"]
    /\ UNCHANGED <<extractVars, webVars, cli, bbox_call, element_pass>>

\* "if args.skip_indexing: ..." of main()
skip_indexing ==
    /\ pipeline.pc = "index"
    /\ pipeline.skip_indexing
    /\ pipeline' = [pipeline EXCEPT !.pc = "chat"]
    /\ UNCHANGED <<extractVars, webVars, cli, bbox_call, element_pass>>

\* mutant: a failed indexing is not reported to the caller
index_to_chromadb_ok(outcome) == TRUE

\* what index_to_chromadb() returns
index_to_chromadb_returns(outcome) ==
    outcome = "ok" /\ pipeline.output = "complete"

\* pipeline.index_to_chromadb() and the test of its result
index_to_chromadb(outcome) ==
    /\ pipeline.pc = "index"
    /\ ~pipeline.skip_indexing
    /\ pipeline' =
         [pipeline EXCEPT
            !.stages = Append(@, [stage |-> "index",
                                  ok |-> (outcome = "ok"
                                          /\ pipeline.output = "complete")]),
            !.pc = IF index_to_chromadb_returns(outcome)
                   THEN "chat" ELSE "returned"]
    /\ UNCHANGED <<extractVars, webVars, cli, bbox_call, element_pass>>

\* the chat loop has ended: start_chat() / main() return
pipeline_return ==
    /\ pipeline.pc = "chat"
    /\ cli.state = "ended"
    /\ pipeline' = [pipeline EXCEPT !.pc = "returned"]
    /\ UNCHANGED <<extractVars, webVars, cli, bbox_call, element_pass>>

InitPipeline ==
    /\ ExtractIdle
    /\ WebIdle
    /\ GeometryIdle
    /\ pipeline \in PipelineStarts

NextPipeline ==
    \/ pipeline_main
    \/ \E o \in StageOutcomes : extract_pdf(o)
    \/ skip_indexing
    \/ \E o \in StageOutcomes : index_to_chromadb(o)
    \* chat.run() / pipeline.start_chat()
    \/ \E o \in {"ok", "init_raises"} : pipeline.pc = "chat" /\ cli_start(o)
    \/ \E line \in Lines, o \in CliOutcomes :
          /\ pipeline.pc = "chat"
          /\ is_query(line) => MayAsk([kind |-> "cli", id |-> 0], MaxWebTurns)
          /\ cli_line(line, o)
    \/ pipeline_return

SpecPipeline == InitPipeline /\ [][NextPipeline]_vars

(***************************************************************************)
(* Bounding boxes: core/pdf_extraction_models.py, utils/bbox_operations.py *)
(* Coordinates are counted in thousandths of a point.                      *)
(***************************************************************************)
MIN_FIGURE_WIDTH == 100
MIN_FIGURE_HEIGHT == 100
MIN_FIGURE_AREA == 20000
BBOX_TOLERANCE == 5
MAX_ADJACENCY_GAP == 100
ADJACENCY_THRESHOLD == 100
CONTAINMENT_TOLERANCE == 5

\* a number of points
pt(n) == n * 1000

min(a, b) == IF a <= b THEN a ELSE b

max(a, b) == IF a >= b THEN a ELSE b

abs(a) == IF a < 0 THEN 0 - a ELSE a

\* min / max over a list of numbers
RECURSIVE min_of(_)
min_of(xs) == IF Len(xs) = 1 THEN xs[1] ELSE min(xs[1], min_of(Tail(xs)))

RECURSIVE max_of(_)
max_of(xs) == IF Len(xs) = 1 THEN xs[1] ELSE max(xs[1], max_of(Tail(xs)))

BoundingBox(x_min, y_min, x_max, y_max) ==
    [x_min |-> x_min, y_min |-> y_min, x_max |-> x_max, y_max |-> y_max]

BoundingBoxLegacy(x0, y0, x1, y1) == [x0 |-> x0, y0 |-> y0, x1 |-> x1, y1 |-> y1]

\* the corner points the layout detector reports for a region
points_of(x_min, y_min, x_max, y_max) ==
    <<<<x_min, y_min>>, <<x_min, y_max>>, <<x_max, y_max>>, <<x_max, y_min>>>>

\* BoundingBoxOperations.create_from_element, on the element's points
create_from_element(points) ==
    IF Len(points) < 2 THEN None
    ELSE LET x_coordinates == [i \in 1..Len(points) |-> points[i][1]]
             y_coordinates == [i \in 1..Len(points) |-> points[i][2]]
         IN  BoundingBox(min_of(x_coordinates), min_of(y_coordinates),
                         max_of(x_coordinates), max_of(y_coordinates))

\* BoundingBoxCalculator.extract_from_element, on the element's points
extract_from_element(points) ==
    IF ~(Len(points) >= 2) THEN None
    ELSE LET x_coords == [i \in 1..Len(points) |-> points[i][1]]
             y_coords == [i \in 1..Len(points) |-> points[i][2]]
         IN  BoundingBoxLegacy(min_of(x_coords), min_of(y_coords),
                               max_of(x_coords), max_of(y_coords))

\* BoundingBoxLegacy.to_standard
to_standard(bbox) == BoundingBox(bbox.x0, bbox.y0, bbox.x1, bbox.y1)

width(bbox) == bbox.x_max - bbox.x_min

height(bbox) == bbox.y_max - bbox.y_min

\* the product of two lengths, in whole square points: the fraction is
\* dropped, which no comparison with a whole number of square points sees
square_points(w, h) ==
    LET wq == w \div 1000
        wr == w % 1000
        hq == h \div 1000
        hr == h % 1000
        middle == wq * hr + wr * hq + (wr * hr) \div 1000
    IN  wq * hq + middle \div 1000

area(bbox) == square_points(width(bbox), height(bbox))

legacy_width(bbox) == bbox.x1 - bbox.x0

legacy_height(bbox) == bbox.y1 - bbox.y0

legacy_area(bbox) == square_points(legacy_width(bbox), legacy_height(bbox))

\* round(value, 2): to the nearest hundredth of a point, a tie to the even one
round2(value) ==
    LET hundredths == value \div 10
        rest == value % 10
    IN  IF rest < 5 THEN hundredths * 10
        ELSE IF rest > 5 THEN (hundredths + 1) * 10
        ELSE IF hundredths % 2 = 0 THEN hundredths * 10
        ELSE (hundredths + 1) * 10

\* BoundingBoxLegacy.to_dict
to_dict(bbox) ==
    [x0 |-> round2(bbox.x0), y0 |-> round2(bbox.y0),
     x1 |-> round2(bbox.x1), y1 |-> round2(bbox.y1),
     width |-> round2(legacy_width(bbox)), height |-> round2(legacy_height(bbox))]

\* mutant: the far edges are taken from the first box alone
merge_first_max(first, second) ==
    BoundingBox(min(first.x_min, second.x_min), min(first.y_min, second.y_min),
                first.x_max, first.y_max)

\* BoundingBoxOperations.merge
merge(first, second) ==
    BoundingBox(min(first.x_min, second.x_min), min(first.y_min, second.y_min),
                max(first.x_max, second.x_max), max(first.y_max, second.y_max))

\* BoundingBoxCalculator.merge
legacy_merge(bbox1, bbox2) ==
    BoundingBoxLegacy(min(bbox1.x0, bbox2.x0), min(bbox1.y0, bbox2.y0),
                      max(bbox1.x1, bbox2.x1), max(bbox1.y1, bbox2.y1))

\* BoundingBoxOperations.is_contained_within
is_contained_within(inner, outer, tolerance) ==
    /\ inner.x_min >= outer.x_min - tolerance
    /\ inner.y_min >= outer.y_min - tolerance
    /\ inner.x_max <= outer.x_max + tolerance
    /\ inner.y_max <= outer.y_max + tolerance

\* mutant: only a box strictly inside another is contained
is_contained_exact(inner, outer) ==
    /\ inner.x0 >= outer.x0
    /\ inner.y0 >= outer.y0
    /\ inner.x1 <= outer.x1
    /\ inner.y1 <= outer.y1

\* BoundingBoxCalculator.is_contained
is_contained(inner, outer) ==
    /\ inner.x0 >= outer.x0 - pt(CONTAINMENT_TOLERANCE)
    /\ inner.y0 >= outer.y0 - pt(CONTAINMENT_TOLERANCE)
    /\ inner.x1 <= outer.x1 + pt(CONTAINMENT_TOLERANCE)
    /\ inner.y1 <= outer.y1 + pt(CONTAINMENT_TOLERANCE)

\* mutant: a gap equal to max_gap is not adjacent
are_adjacent_strict(first, second, max_gap) ==
    LET vertical_gap == min(abs(first.y_min - second.y_max),
                            abs(second.y_min - first.y_max))
        horizontal_gap == min(abs(first.x_min - second.x_max),
                              abs(second.x_min - first.x_max))
        has_horizontal_overlap ==
            ~(first.x_max < second.x_min \/ second.x_max < first.x_min)
        has_vertical_overlap ==
            ~(first.y_max < second.y_min \/ second.y_max < first.y_min)
    IN  \/ vertical_gap < max_gap /\ has_horizontal_overlap
        \/ horizontal_gap < max_gap /\ has_vertical_overlap

\* BoundingBoxOperations.are_adjacent
are_adjacent(first, second, max_gap) ==
    LET vertical_gap == min(abs(first.y_min - second.y_max),
                            abs(second.y_min - first.y_max))
        horizontal_gap == min(abs(first.x_min - second.x_max),
                              abs(second.x_min - first.x_max))
        has_horizontal_overlap ==
            ~(first.x_max < second.x_min \/ second.x_max < first.x_min)
        has_vertical_overlap ==
            ~(first.y_max < second.y_min \/ second.y_max < first.y_min)
    IN  \/ vertical_gap <= max_gap /\ has_horizontal_overlap
        \/ horizontal_gap <= max_gap /\ has_vertical_overlap

\* BoundingBoxCalculator.are_adjacent
legacy_are_adjacent(bbox1, bbox2) ==
    LET vertical_gap == min(abs(bbox1.y0 - bbox2.y1), abs(bbox2.y0 - bbox1.y1))
        horizontal_gap == min(abs(bbox1.x0 - bbox2.x1), abs(bbox2.x0 - bbox1.x1))
        x_overlap == ~(bbox1.x1 < bbox2.x0 \/ bbox2.x1 < bbox1.x0)
        y_overlap == ~(bbox1.y1 < bbox2.y0 \/ bbox2.y1 < bbox1.y0)
    IN  \/ vertical_gap <= pt(ADJACENCY_THRESHOLD) /\ x_overlap
        \/ horizontal_gap <= pt(ADJACENCY_THRESHOLD) /\ y_overlap

\* mutant: a figure is rejected as soon as one side is short
is_valid_figure_size_any_side(bbox) ==
    IF bbox = None THEN FALSE
    ELSE ~(\/ legacy_width(bbox) < pt(MIN_FIGURE_WIDTH)
           \/ legacy_height(bbox) < pt(MIN_FIGURE_HEIGHT)
           \/ legacy_area(bbox) < MIN_FIGURE_AREA)

\* PDFElementExtractor._is_valid_figure_size
is_valid_figure_size(bbox) ==
    IF bbox = None THEN FALSE
    ELSE ~(\/ /\ legacy_width(bbox) < pt(MIN_FIGURE_WIDTH)
              /\ legacy_height(bbox) < pt(MIN_FIGURE_HEIGHT)
           \/ legacy_area(bbox) < MIN_FIGURE_AREA)

\* HybridPDFExtractor._should_keep_figure, on a figure record
should_keep_figure(figure) ==
    LET bounding_box_dict == get(figure, "bounding_box", None)
    IN  IF bounding_box_dict = None THEN TRUE
        ELSE LET w == get(bounding_box_dict, "width", 0)
                 h == get(bounding_box_dict, "height", 0)
             IN  ~(\/ w < pt(MIN_FIGURE_WIDTH) /\ h < pt(MIN_FIGURE_HEIGHT)
                   \/ square_points(w, h) < MIN_FIGURE_AREA)

(***************************************************************************)
(* Calls of the bounding-box operations on regions of a small grid.        *)
(***************************************************************************)
\* edges of the regions: gaps of exactly 100 and of 100.1 occur between them
Edges == {pt(0), pt(100), pt(200), pt(200) + 100, pt(300)}

\* sides of candidate figures, around both size thresholds; 99.996 is
\* serialized as 100.00 and 141.424 as 141.42
Sides == {pt(50), 99996, pt(100), 141424, pt(200), pt(500)}

Regions ==
    {points_of(x1, y1, x2, y2) :
        x1 \in Edges, y1 \in Edges,
        x2 \in Edges, y2 \in Edges} 

ProperRegions == {r \in Regions : r[1][1] < r[3][1] /\ r[1][2] < r[3][2]}

Candidates == {points_of(pt(0), pt(0), w, h) : w \in Sides, h \in Sides} \cup {<<>>}

InitBBox ==
    /\ ExtractIdle
    /\ WebIdle
    /\ pipeline = NoPipeline
    /\ element_pass = NoPass
    /\ \E args \in (ProperRegions \X ProperRegions)
                    \cup {<<c>> : c \in Candidates} :
          bbox_call = [args |-> args, call |-> "none", result |-> None]

Returned(name, value) ==
    /\ bbox_call.call = "none"
    /\ bbox_call' = [bbox_call EXCEPT !.call = name, !.result = value]
    /\ UNCHANGED <<extractVars, webVars, cli, pipeline, element_pass>>

call_merge ==
    /\ Len(bbox_call.args) = 2
    /\ Returned("BoundingBoxOperations.merge",
                merge(create_from_element(bbox_call.args[1]),
                      create_from_element(bbox_call.args[2])))

call_legacy_merge ==
    /\ Len(bbox_call.args) = 2
    /\ Returned("BoundingBoxCalculator.merge",
                legacy_merge(extract_from_element(bbox_call.args[1]),
                             extract_from_element(bbox_call.args[2])))

call_are_adjacent ==
    /\ Len(bbox_call.args) = 2
    /\ Returned("BoundingBoxOperations.are_adjacent",
                are_adjacent(create_from_element(bbox_call.args[1]),
                             create_from_element(bbox_call.args[2]),
                             pt(MAX_ADJACENCY_GAP)))

call_legacy_are_adjacent ==
    /\ Len(bbox_call.args) = 2
    /\ Returned("BoundingBoxCalculator.are_adjacent",
                legacy_are_adjacent(extract_from_element(bbox_call.args[1]),
                                    extract_from_element(bbox_call.args[2])))

call_is_valid_figure_size ==
    /\ Len(bbox_call.args) = 1
    /\ Returned("PDFElementExtractor._is_valid_figure_size",
                is_valid_figure_size(extract_from_element(bbox_call.args[1])))

\* the figure record the single-page extractor hands to the hybrid one
figure_record(points) ==
    [bounding_box |-> IF extract_from_element(points) = None THEN None
                      ELSE to_dict(extract_from_element(points))]

call_should_keep_figure ==
    /\ Len(bbox_call.args) = 1
    /\ Returned("HybridPDFExtractor._should_keep_figure",
                should_keep_figure(figure_record(bbox_call.args[1])))

NextBBox ==
    \/ call_merge
    \/ call_legacy_merge
    \/ call_are_adjacent
    \/ call_legacy_are_adjacent
    \/ call_is_valid_figure_size
    \/ call_should_keep_figure

SpecBBox == InitBBox /\ [][NextBBox]_vars

(***************************************************************************)
(* Captions: utils/caption_detector.py.  The element sequence is a         *)
(* function of the 0-based index; an element is its class, its text, the   *)
(* corner points of its coordinates and its page number.                   *)
(***************************************************************************)
ListLen == 8
MaxVisuals == 3
CAPTION_SEARCH_RANGE == 5

len(elements) == Cardinality(DOMAIN elements)

\* the texts of the elements, and the keyword lists each of them hits
\* (CaptionKeywords, core/pdf_extraction_config.py)
Texts == {"", "body", "Figure 1", "Table 1", "Table 2 and Figure 2"}

\* any(pattern in text.lower() for pattern in TABLE_KEYWORDS)
is_table_caption(text) == text \in {"Table 1", "Table 2 and Figure 2"}

\* any(pattern in text for pattern in FIGURE_KEYWORDS)
is_figure_caption(text) == text \in {"Figure 1", "Table 2 and Figure 2"}

\* any(pattern in text for pattern in DESCRIPTION_KEYWORDS)
is_description(text) == text \in {"Figure 1", "Table 1", "Table 2 and Figure 2"}

\* isinstance(element, Text): Title, NarrativeText, Image and Table are
\* subclasses of Text
is_Text(element) == element.type \in {"Text", "Title", "NarrativeText", "Image", "Table"}

CaptionInfo(text, description, bbox, caption_type) ==
    [text |-> text, description |-> description, bbox |-> bbox,
     caption_type |-> caption_type]

\* None where a string is expected
no_text == "None"

\* truth value of an optional string
truthy(text) == text \notin {no_text, ""}

\* CaptionExtractor._is_closer_than_existing
is_closer_than_existing(element_index, target_index, existing_caption) ==
    ~truthy(existing_caption) \/ abs(element_index - target_index) < 3

\* mutant: the figure keywords are tried before the table keywords
extract_title_caption_figure_first(element, element_index, target_index, found) ==
    IF is_figure_caption(element.text)
    THEN IF is_closer_than_existing(element_index, target_index, found.text)
         THEN CaptionInfo(element.text, found.description,
                          extract_from_element(element.points), "figure")
         ELSE found
    ELSE IF is_table_caption(element.text)
              /\ is_closer_than_existing(element_index, target_index, found.text)
         THEN CaptionInfo(element.text, found.description,
                          extract_from_element(element.points), "table")
         ELSE found

\* CaptionExtractor._extract_title_caption: None, or the new caption
extract_title_caption(element, element_index, target_index, found) ==
    IF is_table_caption(element.text)
    THEN IF is_closer_than_existing(element_index, target_index, found.text)
         THEN CaptionInfo(element.text, found.description,
                          extract_from_element(element.points), "table")
         ELSE found
    ELSE IF is_figure_caption(element.text)
              /\ is_closer_than_existing(element_index, target_index, found.text)
         THEN CaptionInfo(element.text, found.description,
                          extract_from_element(element.points), "figure")
         ELSE found

\* CaptionExtractor._extract_text_caption
extract_text_caption(element, element_index, target_index, found) ==
    IF is_table_caption(element.text)
         /\ is_closer_than_existing(element_index, target_index, found.text)
    THEN CaptionInfo(element.text, found.description,
                     extract_from_element(element.points), "table")
    ELSE found

\* CaptionExtractor._extract_description
extract_description(element, element_index, target_index) ==
    IF abs(element_index - target_index) <= 2 /\ is_description(element.text)
    THEN element.text
    ELSE no_text

\* the loop of CaptionExtractor.find_for_element, from index i on
RECURSIVE find_for_element_from(_, _, _, _, _)
find_for_element_from(elements, i, element_index, element_page, found) ==
    IF i >= min(len(elements), element_index + CAPTION_SEARCH_RANGE + 1)
    THEN found
    ELSE LET element == elements[i]
             after ==
                 IF i = element_index THEN found
                 ELSE IF element.page_number # element_page THEN found
                 ELSE IF element.type = "Title"
                      THEN extract_title_caption(element, i, element_index, found)
                 ELSE IF element.type = "NarrativeText" /\ ~truthy(found.description)
                      THEN [found EXCEPT !.description =
                                extract_description(element, i, element_index)]
                 ELSE IF is_Text(element) /\ ~truthy(found.text)
                      THEN extract_text_caption(element, i, element_index, found)
                 ELSE found
         IN  find_for_element_from(elements, i + 1, element_index, element_page, after)

\* CaptionExtractor.find_for_element
find_for_element(elements, element_index, element_page) ==
    find_for_element_from(elements, max(0, element_index - CAPTION_SEARCH_RANGE),
                          element_index, element_page,
                          CaptionInfo(no_text, no_text, None, "unknown"))

\* mutant: a candidate within two positions of the target replaces the caption
is_closer_match_by_distance(current_index, target_index, existing_caption) ==
    \/ ~truthy(existing_caption)
    \/ abs(current_index - target_index) < 3

\* CaptionDetector._is_closer_match
is_closer_match(current_index, target_index, existing_caption) ==
    \/ ~truthy(existing_caption)
    \/ abs(current_index - target_index) < abs(target_index - current_index)

\* CaptionDetector._process_title_element: the caption after the element
process_title_element(element, target_index, current_index, found) ==
    IF is_table_caption(element.text)
    THEN IF is_closer_match(current_index, target_index, found.text)
         THEN CaptionInfo(element.text, found.description,
                          create_from_element(element.points), "table")
         ELSE found
    ELSE IF is_figure_caption(element.text)
              /\ is_closer_match(current_index, target_index, found.text)
         THEN CaptionInfo(element.text, found.description,
                          create_from_element(element.points), "figure")
         ELSE found

\* CaptionDetector._process_text_element
process_text_element(element, found) ==
    IF is_table_caption(element.text)
    THEN CaptionInfo(element.text, found.description,
                     create_from_element(element.points), "table")
    ELSE found

\* CaptionDetector._extract_caption_from_element
extract_caption_from_element(element, target_index, current_index, found) ==
    IF element.type = "Title"
    THEN process_title_element(element, target_index, current_index, found)
    ELSE IF is_Text(element) /\ ~truthy(found.text)
    THEN process_text_element(element, found)
    ELSE found

\* CaptionDetector._extract_description_from_element
extract_description_from_element(element, target_index, current_index) ==
    IF element.type # "NarrativeText" \/ abs(current_index - target_index) > 2
    THEN no_text
    ELSE IF is_description(element.text) THEN element.text ELSE no_text

\* CaptionDetector._is_on_same_page
is_on_same_page(element, target_page) ==
    IF element.page_number # 0 THEN element.page_number = target_page ELSE TRUE

\* the loop of CaptionDetector.find_caption_and_description
RECURSIVE find_caption_and_description_from(_, _, _, _, _)
find_caption_and_description_from(elements, index, element_index, element_page, found) ==
    IF index >= min(len(elements), element_index + CAPTION_SEARCH_RANGE + 1)
    THEN found
    ELSE LET current_element == elements[index]
             caption_result ==
                 extract_caption_from_element(current_element, element_index,
                                              index, found)
             after ==
                 IF index = element_index THEN found
                 ELSE IF ~is_on_same_page(current_element, element_page) THEN found
                 ELSE IF ~truthy(caption_result.description)
                      THEN [caption_result EXCEPT !.description =
                                extract_description_from_element(
                                    current_element, element_index, index)]
                 ELSE caption_result
         IN  find_caption_and_description_from(elements, index + 1, element_index,
                                               element_page, after)

\* CaptionDetector.find_caption_and_description
find_caption_and_description(elements, element_index, element_page) ==
    find_caption_and_description_from(
        elements, max(0, element_index - CAPTION_SEARCH_RANGE), element_index,
        element_page, CaptionInfo(no_text, no_text, None, "unknown"))

(***************************************************************************)
(* Calls of the two caption searches on arbitrary neighbourhoods.          *)
(***************************************************************************)
\* an element that says nothing
plain == [type |-> "NarrativeText", text |-> "body", points |-> <<>>, page_number |-> 1]

\* the elements that may be a caption or a description; page_number 0 is
\* a metadata.page_number of None
Neighbours ==
    [type : {"Title", "NarrativeText", "Text"},
     text : {"Figure 1", "Table 1", "Table 2 and Figure 2"},
     points : {points_of(pt(0), pt(0), pt(200), pt(20))},
     page_number : {0, 1, 2}]

\* the sequences of ListLen elements with at most two such neighbours
NeighbourhoodsOf(neighbours) ==
    {[i \in 0..(ListLen - 1) |-> plain]}
    \cup {[i \in 0..(ListLen - 1) |-> IF i = a THEN first
                                       ELSE IF i = b THEN second ELSE plain] :
            a \in 0..(ListLen - 1), b \in 0..(ListLen - 1),
            first \in neighbours, second \in neighbours}

Neighbourhoods == NeighbourhoodsOf(Neighbours)

InitCaption ==
    /\ ExtractIdle
    /\ WebIdle
    /\ pipeline = NoPipeline
    /\ element_pass = NoPass
    /\ \E elements \in Neighbourhoods, element_index \in 0..(ListLen - 1) :
          bbox_call = [args |-> <<elements, element_index, 1>>,
                       call |-> "none", result |-> None]

call_find_caption_and_description ==
    /\ Len(bbox_call.args) = 3
    /\ Returned("CaptionDetector.find_caption_and_description",
                find_caption_and_description(bbox_call.args[1], bbox_call.args[2],
                                             bbox_call.args[3]))

call_find_for_element ==
    /\ Len(bbox_call.args) = 3
    /\ Returned("CaptionExtractor.find_for_element",
                find_for_element(bbox_call.args[1], bbox_call.args[2],
                                 bbox_call.args[3]))

NextCaption ==
    \/ call_find_caption_and_description
    \/ call_find_for_element

SpecCaption == InitCaption /\ [][NextCaption]_vars

(***************************************************************************)
(* Element preprocessing: processors/element_preprocessor.py               *)
(***************************************************************************)
\* ElementProcessor._should_process_element, ElementPreprocessor._is_visual_element
should_process_element(element) == element.type \in {"Image", "Table"}

\* ElementProcessor._get_page_number, ElementPreprocessor._get_page_number
get_page_number(element) == IF element.page_number # 0 THEN element.page_number ELSE 1

\* None where an index is expected
no_index == 0 - 1

ElementInfo(index, bbox, page) ==
    [index |-> index, bbox |-> bbox, page |-> page, skip |-> FALSE,
     merge_with |-> no_index]

\* the loop of ElementProcessor._build_element_list, from index idx on
RECURSIVE build_element_list_from(_, _, _)
build_element_list_from(elements, idx, elements_with_bbox) ==
    IF idx >= len(elements) THEN elements_with_bbox
    ELSE LET element == elements[idx]
             bbox == extract_from_element(element.points)
         IN  build_element_list_from(elements, idx + 1,
                 IF should_process_element(element) /\ bbox # None
                 THEN Append(elements_with_bbox,
                             ElementInfo(idx, bbox, get_page_number(element)))
                 ELSE elements_with_bbox)

\* ElementProcessor._build_element_list
build_element_list(elements) == build_element_list_from(elements, 0, <<>>)

\* ElementProcessor._should_skip_duplicate_caption
should_skip_duplicate_caption(caption1, caption2, bbox1, bbox2) ==
    IF ~(truthy(caption1) /\ truthy(caption2) /\ caption1 = caption2) THEN FALSE
    ELSE legacy_area(bbox1) < legacy_area(bbox2)

\* mutant: an element already skipped still makes others skip
containment_skips_any(elements_with_bbox, i, original_elements) ==
    LET elem1 == elements_with_bbox[i]
        caption1_info == find_for_element(original_elements, elem1.index, elem1.page)
    IN  \E j \in 1..Len(elements_with_bbox) :
            LET elem2 == elements_with_bbox[j]
            IN  /\ ~(i = j \/ elem1.page # elem2.page)
                /\ \/ is_contained(elem1.bbox, elem2.bbox)
                   \/ should_skip_duplicate_caption(
                          caption1_info.text,
                          find_for_element(original_elements, elem2.index,
                                           elem2.page).text,
                          elem1.bbox, elem2.bbox)

\* the inner loop of ElementProcessor._apply_containment_rules: does it
\* leave elem1 skipped
containment_skips(elements_with_bbox, i, original_elements) ==
    LET elem1 == elements_with_bbox[i]
        caption1_info == find_for_element(original_elements, elem1.index, elem1.page)
    IN  \E j \in 1..Len(elements_with_bbox) :
            LET elem2 == elements_with_bbox[j]
            IN  /\ ~(i = j \/ elem2.skip \/ elem1.page # elem2.page)
                /\ \/ is_contained(elem1.bbox, elem2.bbox)
                   \/ should_skip_duplicate_caption(
                          caption1_info.text,
                          find_for_element(original_elements, elem2.index,
                                           elem2.page).text,
                          elem1.bbox, elem2.bbox)

\* the outer loop of ElementProcessor._apply_containment_rules, from i on
RECURSIVE apply_containment_rules_from(_, _, _)
apply_containment_rules_from(elements_with_bbox, i, original_elements) ==
    IF i > Len(elements_with_bbox) THEN elements_with_bbox
    ELSE apply_containment_rules_from(
             IF elements_with_bbox[i].skip THEN elements_with_bbox
             ELSE [elements_with_bbox EXCEPT ![i].skip =
                       containment_skips(elements_with_bbox, i, original_elements)],
             i + 1, original_elements)

\* ElementProcessor._apply_containment_rules
apply_containment_rules(elements_with_bbox, original_elements) ==
    apply_containment_rules_from(elements_with_bbox, 1, original_elements)

\* the least member of a non-empty set of positions
first_of(positions) == CHOOSE j \in positions : \A k \in positions : j <= k

\* mutant: the neighbour is taken whether or not it has a caption
merge_candidates_any(elements_with_bbox, i, original_elements) ==
    LET elem1 == elements_with_bbox[i]
    IN  {j \in 1..Len(elements_with_bbox) :
            LET elem2 == elements_with_bbox[j]
            IN  /\ ~(i = j \/ elem2.skip \/ elem2.merge_with # no_index
                            \/ elem1.page # elem2.page)
                /\ legacy_are_adjacent(elem1.bbox, elem2.bbox)}

\* the inner loop of ElementProcessor._apply_adjacency_rules: the positions
\* at which it would set merge_with and break
merge_candidates(elements_with_bbox, i, original_elements) ==
    LET elem1 == elements_with_bbox[i]
    IN  {j \in 1..Len(elements_with_bbox) :
            LET elem2 == elements_with_bbox[j]
            IN  /\ ~(i = j \/ elem2.skip \/ elem2.merge_with # no_index
                            \/ elem1.page # elem2.page)
                /\ legacy_are_adjacent(elem1.bbox, elem2.bbox)
                /\ truthy(find_for_element(original_elements, elem2.index,
                                           elem2.page).text)}

\* the outer loop of ElementProcessor._apply_adjacency_rules, from i on
RECURSIVE apply_adjacency_rules_from(_, _, _)
apply_adjacency_rules_from(elements_with_bbox, i, original_elements) ==
    IF i > Len(elements_with_bbox) THEN elements_with_bbox
    ELSE LET elem1 == elements_with_bbox[i]
             candidates == merge_candidates(elements_with_bbox, i, original_elements)
         IN  apply_adjacency_rules_from(
                 IF \/ elem1.skip
                    \/ elem1.merge_with # no_index
                    \/ truthy(find_for_element(original_elements, elem1.index,
                                               elem1.page).text)
                    \/ candidates = {}
                 THEN elements_with_bbox
                 ELSE [elements_with_bbox EXCEPT ![i].merge_with =
                           elements_with_bbox[first_of(candidates)].index],
                 i + 1, original_elements)

\* ElementProcessor._apply_adjacency_rules
apply_adjacency_rules(elements_with_bbox, original_elements) ==
    apply_adjacency_rules_from(elements_with_bbox, 1, original_elements)

\* the loop of ElementPreprocessor._build_elements_with_bboxes
RECURSIVE build_elements_with_bboxes_from(_, _, _)
build_elements_with_bboxes_from(elements, index, elements_with_bboxes) ==
    IF index >= len(elements) THEN elements_with_bboxes
    ELSE LET element == elements[index]
             bounding_box == create_from_element(element.points)
         IN  build_elements_with_bboxes_from(elements, index + 1,
                 IF should_process_element(element) /\ bounding_box # None
                 THEN Append(elements_with_bboxes,
                             ElementInfo(index, bounding_box, get_page_number(element)))
                 ELSE elements_with_bboxes)

\* ElementPreprocessor._build_elements_with_bboxes
build_elements_with_bboxes(elements) ==
    build_elements_with_bboxes_from(elements, 0, <<>>)

\* ElementPreprocessor._get_element_caption
get_element_caption(elements, element_info) ==
    find_caption_and_description(elements, element_info.index, element_info.page).text

\* ElementPreprocessor._should_skip_contained_element
should_skip_contained_element(first, second) ==
    is_contained_within(first.bbox, second.bbox, pt(BBOX_TOLERANCE))

\* ElementPreprocessor._should_skip_duplicate_caption
hybrid_should_skip_duplicate_caption(elements, first, second, first_caption) ==
    IF ~truthy(first_caption) THEN FALSE
    ELSE LET second_caption == get_element_caption(elements, second)
         IN  IF ~truthy(second_caption) \/ first_caption # second_caption THEN FALSE
             ELSE area(first.bbox) < area(second.bbox)

\* the inner loop of ElementPreprocessor._apply_containment_rules
hybrid_containment_skips(elements, elements_with_bboxes, i) ==
    LET first_element == elements_with_bboxes[i]
        first_caption == get_element_caption(elements, first_element)
    IN  \E j \in 1..Len(elements_with_bboxes) :
            LET second_element == elements_with_bboxes[j]
            IN  /\ ~(i = j \/ second_element.skip)
                /\ first_element.page = second_element.page
                /\ \/ should_skip_contained_element(first_element, second_element)
                   \/ hybrid_should_skip_duplicate_caption(
                          elements, first_element, second_element, first_caption)

\* the outer loop of ElementPreprocessor._apply_containment_rules
RECURSIVE hybrid_apply_containment_rules_from(_, _, _)
hybrid_apply_containment_rules_from(elements, elements_with_bboxes, i) ==
    IF i > Len(elements_with_bboxes) THEN elements_with_bboxes
    ELSE hybrid_apply_containment_rules_from(
             elements,
             IF elements_with_bboxes[i].skip THEN elements_with_bboxes
             ELSE [elements_with_bboxes EXCEPT ![i].skip =
                       hybrid_containment_skips(elements, elements_with_bboxes, i)],
             i + 1)

\* ElementPreprocessor._apply_containment_rules
hybrid_apply_containment_rules(elements, elements_with_bboxes) ==
    hybrid_apply_containment_rules_from(elements, elements_with_bboxes, 1)

\* ElementPreprocessor._find_adjacent_element_with_caption: the positions of
\* the candidates it would return
adjacent_elements_with_caption(elements, target_element, all_elements) ==
    {j \in 1..Len(all_elements) :
        LET candidate == all_elements[j]
        IN  /\ ~(candidate.skip \/ candidate.merge_with # no_index
                        \/ candidate.page # target_element.page)
            /\ are_adjacent(target_element.bbox, candidate.bbox, pt(MAX_ADJACENCY_GAP))
            /\ truthy(get_element_caption(elements, candidate))}

\* the loop of ElementPreprocessor._apply_adjacency_rules
RECURSIVE hybrid_apply_adjacency_rules_from(_, _, _)
hybrid_apply_adjacency_rules_from(elements, elements_with_bboxes, i) ==
    IF i > Len(elements_with_bboxes) THEN elements_with_bboxes
    ELSE LET first_element == elements_with_bboxes[i]
             candidates == adjacent_elements_with_caption(
                               elements, first_element, elements_with_bboxes)
         IN  hybrid_apply_adjacency_rules_from(
                 elements,
                 IF \/ first_element.skip
                    \/ first_element.merge_with # no_index
                    \/ truthy(get_element_caption(elements, first_element))
                    \/ candidates = {}
                 THEN elements_with_bboxes
                 ELSE [elements_with_bboxes EXCEPT ![i].merge_with =
                           elements_with_bboxes[first_of(candidates)].index],
                 i + 1)

\* ElementPreprocessor._apply_adjacency_rules
hybrid_apply_adjacency_rules(elements, elements_with_bboxes) ==
    hybrid_apply_adjacency_rules_from(elements, elements_with_bboxes, 1)

(***************************************************************************)
(* The single-page extractor: classifiers/element_classifier_simple.py,    *)
(* extractors/pdf_simple_extractor.py                                      *)
(***************************************************************************)
\* ElementClassifier._is_image_element: an Image, or an element of another
\* class whose category is Image or Figure (type "Figure" here)
is_image_element(element) == element.type \in {"Image", "Figure"}

\* any(word in description for word in PANEL_KEYWORDS)
has_panel_keyword(description) == description \in {"Figure 1", "Table 2 and Figure 2"}

\* ElementClassifier._appears_to_be_diagram: none of the texts has the
\* digit patterns
appears_to_be_diagram(content) == content \notin Texts

\* ElementClassifier._classify_by_characteristics
classify_by_characteristics(element, description) ==
    LET bbox == extract_from_element(element.points)
    IN  IF /\ bbox # None
           /\ legacy_width(bbox) > pt(900)
           /\ legacy_height(bbox) > pt(600)
           /\ truthy(description)
           /\ has_panel_keyword(description)
        THEN "figure"
        ELSE IF appears_to_be_diagram(element.text) THEN "figure"
        ELSE "table"

\* ElementClassifier._classify_table
classify_table(element, elements, element_index, page) ==
    LET caption_info == find_for_element(elements, element_index, page)
    IN  IF caption_info.caption_type = "figure" THEN "figure"
        ELSE IF caption_info.caption_type = "table" THEN "table"
        ELSE classify_by_characteristics(element, caption_info.description)

\* ElementClassifier.classify
classify(element, elements, element_index, page) ==
    IF is_image_element(element) THEN "figure"
    ELSE IF element.type = "Table"
    THEN classify_table(element, elements, element_index, page)
    ELSE "unknown"

(***************************************************************************)
(* Calls of ElementClassifier.classify on arbitrary neighbourhoods.        *)
(***************************************************************************)
\* a text the diagram pattern matches: four numbers in a row and more than
\* ten single digits
DiagramLabels == "1 2 3 4 5 6 7 8 9 1 2 3"

\* the detected elements: of a visual class or not, panel-sized or not,
\* with or without diagram labels as content
Detected ==
    [type : {"Image", "Figure", "Table", "Text"},
     text : {"body", DiagramLabels},
     points : {points_of(pt(0), pt(0), pt(1000), pt(700)),
               points_of(pt(0), pt(0), pt(200), pt(200))},
     page_number : {1}]

InitClassify ==
    /\ ExtractIdle
    /\ WebIdle
    /\ pipeline = NoPipeline
    /\ element_pass = NoPass
    /\ \E around \in NeighbourhoodsOf({n \in Neighbours : n.page_number # 0}),
          element_index \in 0..(ListLen - 1), element \in Detected :
          bbox_call = [args |-> <<[around EXCEPT ![element_index] = element],
                                  element_index, 1>>,
                       call |-> "none", result |-> None]

call_classify ==
    /\ Len(bbox_call.args) = 3
    /\ Returned("ElementClassifier.classify",
                classify(bbox_call.args[1][bbox_call.args[2]], bbox_call.args[1],
                         bbox_call.args[2], bbox_call.args[3]))

NextClassify == call_classify

SpecClassify == InitClassify /\ [][NextClassify]_vars

\* PDFElementExtractor._resolve_merge: the element (as its index in the
\* sequence), the box, and merged_indices as the call leaves it
resolve_merge(elem_info, preprocessed, merged_indices) ==
    LET found == {k \in 1..Len(preprocessed) :
                     elem_info.merge_with # no_index
                     /\ preprocessed[k].index = elem_info.merge_with}
    IN  IF elem_info.merge_with = no_index \/ found = {}
        THEN [element |-> elem_info.index, bbox |-> elem_info.bbox,
              merged_indices |-> merged_indices]
        ELSE LET merge_elem_info == preprocessed[first_of(found)]
             IN  [element |-> merge_elem_info.index,
                  bbox |-> legacy_merge(elem_info.bbox, merge_elem_info.bbox),
                  merged_indices |->
                      merged_indices \cup {elem_info.index, elem_info.merge_with}]

\* PDFElementExtractor._merge_with_caption_bbox
merge_with_caption_bbox(bbox, caption_bbox) ==
    IF bbox # None /\ caption_bbox # None THEN legacy_merge(bbox, caption_bbox)
    ELSE bbox

\* f"fig{counter}.png", f"table{counter}.csv", f"table{counter}.png"
filename(stem, counter, extension) ==
    [stem |-> stem, counter |-> counter, extension |-> extension]

\* PDFElementExtractor._process_figure; extracted: ImageExtractor.extract_from_pdf
\* returned True
process_figure(original_elements, element, bbox, page, counter, element_index, extracted) ==
    IF ~is_valid_figure_size(bbox) THEN None
    ELSE LET caption_info == find_for_element(original_elements, element_index, page)
             final_bbox == merge_with_caption_bbox(bbox, caption_info.bbox)
         IN  IF ~extracted THEN None
             ELSE [filename |-> filename("fig", counter, ".png"),
                   source_pdf |-> "doc",
                   page_number |-> page,
                   figure_index |-> counter,
                   caption |-> caption_info.text,
                   description |-> caption_info.description,
                   bounding_box |-> to_dict(final_bbox),
                   original_type |-> original_elements[element].type,
                   reclassified |-> original_elements[element].type = "Table",
                   element_id |-> element]

\* PDFElementExtractor._process_table; exported: TableDataExporter.save_as_csv
\* returned True
process_table(original_elements, element, bbox, page, counter, element_index, extracted, exported) ==
    LET caption_info == find_for_element(original_elements, element_index, page)
        is_Table == original_elements[element].type = "Table"
        csv_files == IF is_Table /\ exported
                     THEN <<filename("table", counter, ".csv")>> ELSE <<>>
        final_bbox == merge_with_caption_bbox(bbox, caption_info.bbox)
        img_files == IF bbox # None /\ extracted
                     THEN <<filename("table", counter, ".png")>> ELSE <<>>
    IN  [files |-> csv_files \o img_files,
         source_pdf |-> "doc",
         page_number |-> page,
         table_index |-> counter,
         caption |-> caption_info.text,
         description |-> caption_info.description,
         content |-> IF is_Table THEN original_elements[element].text ELSE no_text,
         bounding_box |-> IF bbox # None THEN to_dict(final_bbox) ELSE None,
         original_type |-> original_elements[element].type,
         reclassified |-> original_elements[element].type = "Image",
         element_id |-> element]

\* the locals of PDFElementExtractor._process_elements before its loop;
\* emitted notes, for every record appended, the element whose turn produced
\* it and the element it was built from
ProcessingStart ==
    [figures_metadata |-> <<>>, tables_metadata |-> <<>>, figure_counter |-> 0,
     table_counter |-> 0, merged_indices |-> {}, emitted |-> <<>>]

\* one turn of the loop of PDFElementExtractor._process_elements
process_element(original_elements, preprocessed, elem_info, locals, rendered, exported) ==
    IF elem_info.skip \/ elem_info.index \in locals.merged_indices THEN locals
    ELSE LET resolved == resolve_merge(elem_info, preprocessed, locals.merged_indices)
             element == resolved.element
             bbox == resolved.bbox
             classification == classify(original_elements[element], original_elements,
                                        elem_info.index, elem_info.page)
             marked == [locals EXCEPT !.merged_indices = resolved.merged_indices]
             note(metadata) ==
                 [index |-> elem_info.index, element |-> element,
                  classification |-> classification, metadata |-> metadata]
         IN  IF classification = "figure"
             THEN LET metadata == process_figure(original_elements, element, bbox,
                                      elem_info.page, locals.figure_counter + 1,
                                      elem_info.index, elem_info.index \in rendered)
                  IN  IF metadata # None
                      THEN [marked EXCEPT
                                !.figure_counter = @ + 1,
                                !.figures_metadata = Append(@, metadata),
                                !.emitted = Append(@, note(metadata))]
                      ELSE [marked EXCEPT !.figure_counter = @ + 1]
             ELSE IF classification = "table"
             THEN LET metadata == process_table(original_elements, element, bbox,
                                      elem_info.page, locals.table_counter + 1,
                                      elem_info.index, elem_info.index \in rendered,
                                      exported)
                  IN  [marked EXCEPT
                           !.table_counter = @ + 1,
                           !.tables_metadata = Append(@, metadata),
                           !.emitted = Append(@, note(metadata))]
             ELSE marked

\* the loop of PDFElementExtractor._process_elements, from position k on
RECURSIVE process_elements_from(_, _, _, _, _, _)
process_elements_from(original_elements, preprocessed, k, locals, rendered, exported) ==
    IF k > Len(preprocessed) THEN locals
    ELSE process_elements_from(
             original_elements, preprocessed, k + 1,
             process_element(original_elements, preprocessed, preprocessed[k],
                             locals, rendered, exported),
             rendered, exported)

(***************************************************************************)
(* One extraction pass over an element sequence.                           *)
(***************************************************************************)
\* the regions of the visual elements: Edge lies in Big within the
\* tolerance only, Below is 100 under Big and 101 under Edge
Big == points_of(pt(0), pt(0), pt(200), pt(200))

Edge == points_of(pt(100), pt(100), pt(205), pt(199))

Below == points_of(pt(0), pt(300), pt(200), pt(500))

TitlePoints == points_of(pt(0), pt(205), pt(200), pt(225))

\* where the sequence may hold a visual element, and where a caption title
VisualSlots == {0, 1, 2, 6}

TitleSlots == {0, 7}

\* images on either page, tables on the first
Visuals ==
    [type : {"Image"}, text : {""}, points : {Big, Edge, Below}, page_number : {1, 2}]
    \cup
    [type : {"Table"}, text : {""}, points : {Big, Edge, Below}, page_number : {1}]

\* the text at a title slot: a paragraph, or a caption title
TitleTexts == [i \in TitleSlots |->
                  IF i = 0 THEN {"body", "Figure 1"} ELSE {"body", "Figure 1", "Table 1"}]

\* a paragraph without any keyword
filler == [type |-> "NarrativeText", text |-> "body", points |-> <<>>, page_number |-> 1]

title(text) == [type |-> "Title", text |-> text, points |-> TitlePoints, page_number |-> 1]

ElementSequence(visuals, titles) ==
    [i \in 0..(ListLen - 1) |->
        IF i \in DOMAIN visuals THEN visuals[i]
        ELSE IF i \in DOMAIN titles /\ titles[i] # "body" THEN title(titles[i])
        ELSE filler]

InitPass ==
    /\ ExtractIdle
    /\ WebIdle
    /\ pipeline = NoPipeline
    /\ bbox_call = NoCall
    /\ \E slots \in {S \in SUBSET VisualSlots : Cardinality(S) <= MaxVisuals} :
       \E visuals \in [slots -> Visuals] :
       \E titles \in {t \in [TitleSlots \ slots -> {"body", "Figure 1", "Table 1"}] :
                          \A i \in DOMAIN t : t[i] \in TitleTexts[i]} :
          element_pass = [NoPass EXCEPT !.pc = "start",
                                        !.elements = ElementSequence(visuals, titles)]

PassStep(from, after) ==
    /\ element_pass.pc = from
    /\ element_pass' = after
    /\ UNCHANGED <<extractVars, webVars, cli, pipeline, bbox_call>>

\* ElementProcessor.preprocess_elements, first pass
preprocess_elements_build ==
    /\ element_pass.impl = "none"
    /\ PassStep("start",
             [element_pass EXCEPT
                  !.pc = "built", !.impl = "ElementProcessor",
                  !.preprocessed = build_element_list(element_pass.elements)])

\* ElementProcessor.preprocess_elements, second pass
preprocess_elements_containment ==
    /\ element_pass.impl = "ElementProcessor"
    /\ PassStep("built",
                [element_pass EXCEPT
                     !.pc = "contained",
                     !.preprocessed = apply_containment_rules(
                                          element_pass.preprocessed,
                                          element_pass.elements)])

\* ElementProcessor.preprocess_elements, third pass
preprocess_elements_adjacency ==
    /\ element_pass.impl = "ElementProcessor"
    /\ PassStep("contained",
                [element_pass EXCEPT
                     !.pc = "preprocessed",
                     !.preprocessed = apply_adjacency_rules(
                                          element_pass.preprocessed,
                                          element_pass.elements)])

\* ElementPreprocessor.preprocess, first pass
preprocess_build ==
    /\ element_pass.impl = "none"
    /\ PassStep("start",
             [element_pass EXCEPT
                  !.pc = "built", !.impl = "ElementPreprocessor",
                  !.preprocessed = build_elements_with_bboxes(element_pass.elements)])

\* ElementPreprocessor.preprocess, second pass
preprocess_containment ==
    /\ element_pass.impl = "ElementPreprocessor"
    /\ PassStep("built",
                [element_pass EXCEPT
                     !.pc = "contained",
                     !.preprocessed = hybrid_apply_containment_rules(
                                          element_pass.elements,
                                          element_pass.preprocessed)])

\* ElementPreprocessor.preprocess, third pass
preprocess_adjacency ==
    /\ element_pass.impl = "ElementPreprocessor"
    /\ PassStep("contained",
                [element_pass EXCEPT
                     !.pc = "preprocessed",
                     !.preprocessed = hybrid_apply_adjacency_rules(
                                          element_pass.elements,
                                          element_pass.preprocessed)])

\* PDFElementExtractor._process_elements on the result of
\* ElementProcessor.preprocess_elements; rendered: the elements whose turn
\* has its image written, exported: whether CSV files are written
process_elements(rendered, exported) ==
    /\ element_pass.impl = "ElementProcessor"
    /\ LET locals == process_elements_from(element_pass.elements,
                                           element_pass.preprocessed, 1,
                                           ProcessingStart, rendered, exported)
       IN  PassStep("preprocessed",
                    [element_pass EXCEPT
                         !.pc = "processed",
                         !.figures = locals.figures_metadata,
                         !.tables = locals.tables_metadata,
                         !.emitted = locals.emitted,
                         !.merged_indices = locals.merged_indices])

\* the image is written for every element, for every element but one, or
\* for none
Renderings == {VisualSlots \ failed : failed \in {{}, {0}, {6}, VisualSlots}}

NextPass ==
    \/ preprocess_elements_build
    \/ preprocess_elements_containment
    \/ preprocess_elements_adjacency
    \/ preprocess_build
    \/ preprocess_containment
    \/ preprocess_adjacency
    \/ \E rendered \in Renderings, exported \in BOOLEAN :
          process_elements(rendered, exported)

SpecPass == InitPass /\ [][NextPass]_vars

(***************************************************************************)
(* PDFMetadataIndexer: rag/index_to_chromadb.py                            *)
(***************************************************************************)
MaxIndexSections == 51

\* "batch_size = 100"
batch_size == 100

\* f"Figure {index}", f"Table {index}"
default_caption(kind, index) == kind \o " " \o ToString(index)

\* the documents of the figures (kind "Figure", type "figure") or of the
\* tables of a section
RECURSIVE prepare_items(_, _, _, _)
prepare_items(items, kind, type, section_index) ==
    IF items = <<>> THEN <<>>
    ELSE LET item == Head(items)
             caption == IF truthy(item.caption) THEN item.caption
                        ELSE default_caption(kind, item.index)
             description == IF truthy(item.description) THEN item.description ELSE ""
             blank == strip(caption) = "" /\ strip(description) = ""
         IN  (IF blank THEN <<>>
              ELSE <<[type |-> type, index |-> item.index, caption |-> caption,
                      description |-> description,
                      section_index |-> section_index]>>)
             \o prepare_items(Tail(items), kind, type, section_index)

\* one iteration of the loop of prepare_documents over the sections
prepare_section(section) ==
    (IF strip(section.text_content) # ""
     THEN <<[type |-> "section", index |-> section.index, caption |-> "",
             description |-> "", section_index |-> section.index]>>
     ELSE <<>>)
    \o prepare_items(section.figures, "Figure", "figure", section.index)
    \o prepare_items(section.tables, "Table", "table", section.index)

RECURSIVE prepare_documents(_)
prepare_documents(structure) ==
    IF structure = <<>> THEN <<>>
    ELSE prepare_section(Head(structure)) \o prepare_documents(Tail(structure))

\* mutant: the slice runs to the end of the list
batch_to_end(documents, i) == SubSeq(documents, i + 1, Len(documents))

\* documents[i:batch_end] with batch_end = min(i + batch_size, len(documents))
batch(documents, i) ==
    SubSeq(documents, i + 1, min(i + batch_size, Len(documents)))

\* the calls of collection.add made by "for i in range(0, len(documents),
\* batch_size)", from i on
RECURSIVE add_batches(_, _)
add_batches(documents, i) ==
    IF i >= Len(documents) THEN <<>>
    ELSE <<batch(documents, i)>> \o add_batches(documents, i + batch_size)

\* sum(1 for m in metadatas if m["type"] == type)
count_type(documents, type) ==
    Cardinality({i \in 1..Len(documents) : documents[i].type = type})

\* PDFMetadataIndexer.index_documents: the statistics returned and the
\* batches added to the collection
index_documents(metadata) ==
    LET documents == prepare_documents(metadata.structure)
    IN  IF documents = <<>>
        THEN [stats |-> [total |-> 0], added |-> <<>>]
        ELSE [stats |-> [total |-> Len(documents),
                         sections |-> count_type(documents, "section"),
                         figures |-> count_type(documents, "figure"),
                         tables |-> count_type(documents, "table")],
              added |-> add_batches(documents, 0)]

\* a metadata.json as the extractors write it: n sections of nf figures and
\* nt tables each, the items numbered through; a caption is absent (None),
\* empty, or the stripped text of a caption element
IndexedItem(index, caption, description) ==
    [index |-> index, caption |-> caption, description |-> description]

IndexedStructure(n, nf, nt, odd_text, even_text, caption, description) ==
    [k \in 1..n |->
        [index |-> k,
         text_content |-> IF k % 2 = 1 THEN odd_text ELSE even_text,
         figures |-> [j \in 1..nf |->
                        IndexedItem((k - 1) * nf + j,
                                    IF j = 1 THEN caption ELSE "Figure 1: chart",
                                    description)],
         tables |-> [j \in 1..nt |->
                        IndexedItem((k - 1) * nt + j,
                                    IF j = 1 THEN caption ELSE "Table 1: results",
                                    description)]]]

InitIndex ==
    /\ ExtractIdle
    /\ WebIdle
    /\ pipeline = NoPipeline
    /\ element_pass = NoPass
    /\ \E n \in 0..MaxIndexSections, nf \in 0..MaxItems, nt \in 0..MaxItems,
          odd_text \in {"", "  ", "question"}, even_text \in {"", "  ", "question"},
          caption \in {no_text, "", "Figure 1: chart"},
          description \in {no_text, "question"} :
          bbox_call = [args |-> <<[structure |->
                                      IndexedStructure(n, nf, nt, odd_text, even_text,
                                                       caption, description)]>>,
                       call |-> "none", result |-> None]

call_index_documents ==
    /\ Len(bbox_call.args) = 1
    /\ Returned("PDFMetadataIndexer.index_documents",
                index_documents(bbox_call.args[1]))

NextIndex == call_index_documents

SpecIndex == InitIndex /\ [][NextIndex]_vars

(***************************************************************************)
(* RAGQuerySystem: rag/rag_query.py                                        *)
(***************************************************************************)
MaxResults == 5

\* the documents the collection returns for a query, best first: each is
\* known by its rank and is a section, a figure or a table
Retrieved ==
    UNION {[1..n -> {"section", "figure", "table"}] : n \in 0..MaxResults}

\* the context item retrieve_context builds for the i-th result
context_item(results, i) ==
    [content |-> [document |-> i],
     metadata |-> [type |-> results[i], page |-> i,
                   caption |-> [document |-> i]],
     distance |-> i]

\* RAGQuerySystem.retrieve_context: the text contexts and the visual ones
RECURSIVE retrieve_context_from(_, _, _)
retrieve_context_from(results, i, contexts) ==
    IF i > Len(results) THEN contexts
    ELSE retrieve_context_from(results, i + 1,
            IF results[i] = "section"
            THEN [contexts EXCEPT !.text = Append(@, context_item(results, i))]
            ELSE IF results[i] \in {"figure", "table"}
            THEN [contexts EXCEPT !.visual = Append(@, context_item(results, i))]
            ELSE contexts)

retrieve_context(results) ==
    retrieve_context_from(results, 1, [text |-> <<>>, visual |-> <<>>])

\* RAGQuerySystem.format_context_for_prompt: the "Use [[ref:N]] to cite
\* this ..." lines of the prompt, each with the context it stands under
format_context_for_prompt(text_contexts, visual_contexts) ==
    [k \in 1..Len(text_contexts) |->
        [ref_id |-> k, cites |-> text_contexts[k].content, part |-> "text"]]
    \o [k \in 1..Len(visual_contexts) |->
        [ref_id |-> Len(text_contexts) + k,
         cites |-> visual_contexts[k].metadata.caption, part |-> "visual"]]

text_references(text_contexts) ==
    [k \in 1..Len(text_contexts) |->
        [id |-> [prefix |-> "text_", i |-> k - 1],
         page_number |-> text_contexts[k].metadata.page,
         text_preview |-> text_contexts[k].content]]

visual_references(visual_contexts) ==
    [k \in 1..Len(visual_contexts) |->
        [id |-> [prefix |-> "visual_", i |-> k - 1],
         page_number |-> visual_contexts[k].metadata.page,
         text_preview |-> visual_contexts[k].metadata.caption]]

\* mutant: the visual references are listed first
reference_list_visuals_first(text_contexts, visual_contexts) ==
    visual_references(visual_contexts) \o text_references(text_contexts)

\* the reference list RAGQuerySystem.query builds
reference_list(text_contexts, visual_contexts) ==
    text_references(text_contexts) \o visual_references(visual_contexts)

\* RAGQuerySystem.query with return_references: the prompt sent and the
\* references returned
query_with_references(results, outcome) ==
    LET contexts == retrieve_context(results)
    IN  [prompt |-> format_context_for_prompt(contexts.text, contexts.visual),
         references |-> IF outcome = "llm_raises" THEN <<>>
                        ELSE reference_list(contexts.text, contexts.visual)]

InitCite ==
    /\ ExtractIdle
    /\ WebIdle
    /\ pipeline = NoPipeline
    /\ element_pass = NoPass
    /\ \E results \in Retrieved, outcome \in {"ok", "llm_raises"} :
          bbox_call = [args |-> <<results, outcome>>, call |-> "none",
                       result |-> None]

call_query ==
    /\ Len(bbox_call.args) = 2
    /\ Returned("RAGQuerySystem.query",
                query_with_references(bbox_call.args[1], bbox_call.args[2]))

NextCite == call_query

SpecCite == InitCite /\ [][NextCite]_vars

(***************************************************************************)
(* Properties of the parallel extraction.                                  *)
(***************************************************************************)
\* the items (figures or tables) of a structure, in section order
RECURSIVE Flat(_, _)
Flat(structure, field) ==
    IF structure = <<>> THEN <<>>
    ELSE Head(structure)[field] \o Flat(Tail(structure), field)

\* the section each flattened item belongs to
RECURSIVE FlatOwner(_, _)
FlatOwner(structure, field) ==
    IF structure = <<>> THEN <<>>
    ELSE [j \in 1..Len(Head(structure)[field]) |-> Head(structure)]
         \o FlatOwner(Tail(structure), field)

\* the sections the workers of the successful pages returned, page ascending
RECURSIVE InputSections(_)
InputSections(p) ==
    IF p = 0 THEN <<>>
    ELSE InputSections(p - 1)
         \o (IF worker_output[p].success
             THEN worker_output[p].metadata.structure ELSE <<>>)

GloballyNumbered(structure, field, idPrefix, dir, kind) ==
    LET items == Flat(structure, field)
        owner == FlatOwner(structure, field)
        given == Flat(InputSections(total_pages), field)
    IN  /\ Len(items) = Len(given)
        /\ \A k \in 1..Len(items) :
            /\ items[k].index = k
            /\ items[k].id = fmt_id(idPrefix, k)
            /\ items[k].page = owner[k].page
            /\ items[k].filename = fmt_filename(items[k].page, kind, k, "png")
            /\ items[k].path = fmt_path(dir, items[k].page, kind, k, "png")
            \* page-ascending, then section, then within-section order
            /\ items[k].page = given[k].page
            /\ items[k]._page_local_index = given[k].index
        /\ \A j, k \in 1..Len(items) : j < k => items[j].page <= items[k].page

\* C1: after combine_page_results the figures carry the global indices 1..K
\* without repeat or gap in page, section, within-section order, with id
\* figure_{index}, filename page{page}_fig{index}.png, path figures/{filename}
\* and the page of their section; tables and sections likewise with their own
\* counters; the totals equal the counts in the structure.
C1_GlobalNumbering ==
    pc = "combined" =>
        LET structure == combined_metadata.structure
            info == combined_metadata.extraction_info
        IN  /\ GloballyNumbered(structure, "figures", "figure_", "figures", "fig")
            /\ GloballyNumbered(structure, "tables", "table_", "tables", "table")
            /\ Len(structure) = Len(InputSections(total_pages))
            /\ \A k \in 1..Len(structure) :
                /\ structure[k].index = k
                /\ structure[k].id = fmt_id("section_", k)
                /\ structure[k].page = InputSections(total_pages)[k].page
            /\ info.total_figures = Len(Flat(structure, "figures"))
            /\ info.total_tables = Len(Flat(structure, "tables"))
            /\ info.total_sections = Len(structure)

\* two pages with figures, the second page's local indices restarting at 1
C1_Witness ==
    /\ pc = "combined"
    /\ \E j, k \in 1..Len(Flat(combined_metadata.structure, "figures")) :
        LET items == Flat(combined_metadata.structure, "figures")
        IN  /\ j < k
            /\ items[j].page < items[k].page
            /\ items[k]._page_local_index = 1
            /\ items[k].index > 2
    /\ Len(Flat(combined_metadata.structure, "tables")) > 1

\* what a section holds, whatever its numbering
Content(section, indexField) ==
    [page |-> section.page,
     figures |-> [j \in 1..Len(section.figures) |-> section.figures[j][indexField]],
     tables |-> [j \in 1..Len(section.tables) |-> section.tables[j][indexField]],
     text_length |-> Len(section.text_content)]

\* C2: whichever pages failed (exception caught in the worker, or raised by
\* the future), total_pages is the number of page results, successful_pages
\* the number of results with success, and the structure holds exactly the
\* sections of the successful pages, with their figures and tables, in page
\* order.
C2_FailureIsolation ==
    pc = "combined" =>
        LET structure == combined_metadata.structure
            info == combined_metadata.extraction_info
            given == InputSections(total_pages)
        IN  /\ info.total_pages = total_pages
            /\ info.total_pages = Len(page_results)
            /\ info.successful_pages =
                 Cardinality({p \in 1..total_pages : worker_output[p].success})
            /\ Len(structure) = Len(given)
            /\ \A k \in 1..Len(structure) :
                 Content(structure[k], "_page_local_index") = Content(given[k], "index")

\* a run in which a future raised, a worker caught an exception or both, and
\* a successful page with figures was combined
C2_Witness ==
    /\ pc = "combined"
    /\ \E p \in 1..total_pages :
        /\ ~worker_output[p].success
        /\ "metadata" \notin DOMAIN worker_output[p]
    /\ combined_metadata.extraction_info.successful_pages = total_pages - 1
    /\ combined_metadata.extraction_info.total_figures > 0

\* how many records of page p the list holds
Records(results, p) == Cardinality({i \in 1..Len(results) : results[i].page = p})

\* C3: for every interleaving of worker completions, every submitted page has
\* contributed exactly one record before combination starts, and the sorted
\* list handed to the combiner, hence the combined metadata, does not depend
\* on the order of completion.
C3_BarrierAndOrder ==
    /\ \A p \in 1..total_pages :
        Records(page_results, p) = (IF p \in pending THEN 0 ELSE 1)
    /\ pc = "combined" =>
        /\ pending = {}
        /\ page_results = [p \in 1..total_pages |-> worker_output[p]]
        /\ combined_metadata =
             combine_page_results([p \in 1..total_pages |-> worker_output[p]])

\* the workers finished in another order than the page order
C3_Witness ==
    /\ pc = "combined"
    /\ \E i \in 1..(Len(completion_order) - 1) :
        completion_order[i] > completion_order[i + 1]
    /\ combined_metadata.extraction_info.total_sections > 1

(***************************************************************************)
(* Properties of the web service.                                          *)
(***************************************************************************)
IdEndpoints == {"get_document_info", "get_pdf", "chat", "delete_session"}

\* C4: a document id is a key of the session map exactly from the successful
\* upload that generated it until a DELETE of it succeeds; no other request
\* adds or removes a key; GET /sessions lists exactly the keys and GET
\* /health counts them.
C4_SessionLifecycle ==
    /\ [](/\ reply.op = "list_sessions" =>
               /\ Len(reply.sessions) = Cardinality(DOMAIN sessions)
               /\ {reply.sessions[i].document_id : i \in 1..Len(reply.sessions)}
                    = DOMAIN sessions
          /\ reply.op = "health_check" =>
               reply.active_sessions = Cardinality(DOMAIN sessions))
    /\ [][IF reply'.op = "upload_pdf" /\ reply'.status = 200
          THEN /\ reply'.document_id \notin 1..issued
               /\ reply'.document_id = issued'
               /\ DOMAIN sessions' = DOMAIN sessions \cup {reply'.document_id}
          ELSE IF reply'.op = "delete_session" /\ reply'.status = 200
          THEN /\ reply'.id \in DOMAIN sessions
               /\ DOMAIN sessions' = DOMAIN sessions \ {reply'.id}
          ELSE DOMAIN sessions' = DOMAIN sessions]_vars

\* a session was created, chatted with over HTTP and WebSocket, and deleted
C4_Witness ==
    /\ reply.op = "health_check"
    /\ reply.active_sessions = 0
    /\ issued > 0
    /\ uploads_disk = {}
    /\ ws[1].state = "closed"
    /\ ws[1].first = "connected"

\* C5: for an id that is not in the session map the four HTTP endpoints
\* answer 404 without a query and without touching files or the map, and the
\* WebSocket sends exactly one error message and closes, reading nothing.
C5_UnknownDocument ==
    [][/\ (reply'.op \in IdEndpoints /\ reply'.id \notin DOMAIN sessions) =>
            /\ reply'.status = 404
            /\ reply'.op = "chat" => ~reply'.queried
            /\ UNCHANGED <<sessions, uploads_disk, extraction_disk, exchanges>>
       /\ (/\ reply'.op = "websocket_chat"
           /\ reply'.event = "accept"
           /\ reply'.id \notin DOMAIN sessions) =>
            /\ ws'[reply'.socket].state = "closed"
            /\ Len(ws'[reply'.socket].sent) = 1
            /\ ws'[reply'.socket].sent[1].type = "error"
            /\ ws'[reply'.socket].last_in = "none"
            /\ UNCHANGED <<sessions, uploads_disk, extraction_disk>>
       \* nothing is read from a closed socket
       /\ \A s \in Sockets :
            (ws[s].state = "closed" /\ ws'[s] # ws[s]) =>
                (reply'.op = "websocket_chat" /\ reply'.event = "accept")]_vars

\* a WebSocket was opened on the id of a deleted session
C5_Witness ==
    /\ reply.op = "websocket_chat"
    /\ reply.event = "accept"
    /\ reply.id \notin DOMAIN sessions
    /\ reply.id \in 1..issued
    /\ ws[1].sent = <<ws_message("error", "Document not found")>>

\* the most recent exchanges of n, at most HistoryCap entries
RecentExchanges(n) ==
    LET m == IF 2 * n > HistoryCap THEN HistoryCap \div 2 ELSE n
    IN  [i \in 1..(2 * m) |->
            IF i % 2 = 1 THEN user_entry(n - m + (i + 1) \div 2)
            ELSE assistant_entry(n - m + i \div 2)]

WellFormedHistory(history, n) ==
    /\ Len(history) <= HistoryCap
    /\ Len(history) % 2 = 0
    /\ \A i \in 1..Len(history) :
         history[i].role = (IF i % 2 = 1 THEN "user" ELSE "assistant")
    /\ history = RecentExchanges(n)

\* C6: after any sequence of chat turns the history of a session kept by
\* POST /chat, of a WebSocket and of the chat CLI has at most 20 entries,
\* alternating user and assistant, and is the most recent (up to 10)
\* exchanges in order; the history handed to the query engine has at most 20.
C6_RollingHistory ==
    /\ \A d \in DOMAIN sessions :
         WellFormedHistory(get(sessions[d], "conversation_history", <<>>),
                           exchanges.post[d])
    /\ \A s \in Sockets :
         WellFormedHistory(ws[s].conversation_history, exchanges.ws[s])
    /\ WellFormedHistory(cli.conversation_history, exchanges.cli)
    /\ "handed" \in DOMAIN reply => Len(reply.handed) <= HistoryCap

\* an eleventh exchange has pushed the first one out of a full history
C6_Witness ==
    /\ exchanges.post[1] > HistoryCap \div 2
    /\ Len(sessions[1].conversation_history) = HistoryCap
    /\ sessions[1].conversation_history[1] = user_entry(exchanges.post[1] - 9)
    /\ reply.op = "chat"
    /\ Len(reply.handed) = HistoryCap

\* C7: an upload whose name does not end in .pdf answers 400 before a file
\* is written or a session created; when extraction or indexing raises, the
\* answer is 500 with the exception message and the session map is unchanged.
C7_UploadErrors ==
    [][reply'.op = "upload_pdf" =>
         /\ reply'.status \in {200, 400, 500}
         /\ reply'.filename.suffix # ".pdf" =>
              /\ reply'.status = 400
              /\ UNCHANGED <<sessions, uploads_disk, extraction_disk, issued>>
         /\ reply'.status = 400 => reply'.filename.suffix # ".pdf"
         /\ reply'.status = 500 =>
              /\ reply'.detail.e \in {"extract_raises", "index_raises"}
              /\ sessions' = sessions
              /\ issued' = issued + 1
              /\ issued' \notin DOMAIN sessions']_vars

\* indexing raised after the file was stored and the PDF extracted
C7_Witness ==
    /\ reply.op = "upload_pdf"
    /\ reply.status = 500
    /\ reply.detail.e = "index_raises"
    /\ issued \in uploads_disk
    /\ issued \in DOMAIN extraction_disk
    /\ sessions = EmptyDict

\* C8: DELETE of a known id removes the uploaded file, the extraction
\* directory and the session record, after which requests on that id answer
\* 404; if removing the files raises, the answer is 500 and the record stays.
C8_DeleteSession ==
    [][/\ (reply'.op = "delete_session" /\ reply'.id \in DOMAIN sessions) =>
            \/ /\ reply'.status = 200
               /\ reply'.id \notin uploads_disk'
               /\ reply'.id \notin DOMAIN extraction_disk'
               /\ reply'.id \notin DOMAIN sessions'
            \/ /\ reply'.status = 500
               /\ reply'.id \in DOMAIN sessions'
               /\ sessions'[reply'.id] = sessions[reply'.id]
       \* an id that has left the map never returns
       /\ \A d \in 1..issued : d \notin DOMAIN sessions => d \notin DOMAIN sessions'
       /\ (reply'.op \in IdEndpoints /\ reply'.id \notin DOMAIN sessions) =>
            reply'.status = 404]_vars

\* a request on the id of a deleted session was answered 404
C8_Witness ==
    /\ reply.op = "get_pdf"
    /\ reply.status = 404
    /\ reply.id \in 1..issued
    /\ reply.id \notin DOMAIN sessions
    /\ reply.id \notin uploads_disk
    /\ reply.id \notin DOMAIN extraction_disk

RECURSIVE TextLength(_)
TextLength(structure) ==
    IF structure = <<>> THEN 0
    ELSE Len(Head(structure).text_content) + TextLength(Tail(structure))

\* C9: for a session created by a successful upload, GET document/{id}/info
\* returns the extraction's page count, its figures plus tables, the summed
\* text length of the persisted sections and the pages that have content.
C9_DocumentInfo ==
    (reply.op = "get_document_info" /\ reply.status = 200) =>
        LET info == sessions[reply.id].extraction_summary.extraction_info
            persisted == extraction_disk[reply.id].structure
        IN  /\ reply.total_pages = info.total_pages
            /\ reply.total_images = info.total_figures + info.total_tables
            /\ reply.total_text_length = TextLength(persisted)
            /\ reply.pages = sorted({persisted[i].page : i \in 1..Len(persisted)})

\* what the code answers: every count is 0 and the page list is empty
C9_Observed ==
    (reply.op = "get_document_info" /\ reply.status = 200) =>
        /\ reply.total_pages = 0
        /\ reply.total_images = 0
        /\ reply.total_text_length = 0
        /\ reply.pages = <<>>

WsProtocol(s) ==
    \* a chat message read: one "processing", then the query
    /\ ws[s].state = "processing" =>
         /\ ws[s].last_in = "chat"
         /\ ws[s].sent = <<ws_message("processing", "Thinking...")>>
    \* before the next message is read: one "processing", one answer
    /\ (ws[s].state = "open" /\ ws[s].last_in = "chat") =>
         /\ Len(ws[s].sent) = 2
         /\ ws[s].sent[1].type = "processing"
         /\ ws[s].sent[2].type \in {"response", "error"}
    \* the first query after a reset (or after the connection) gets an
    \* empty history
    /\ ws[s].last_in = "reset" => ws[s].conversation_history = <<>>
    /\ (/\ reply.op = "websocket_chat" /\ reply.event = "query" /\ reply.socket = s
        /\ exchanges.ws[s] = (IF ws[s].sent[2].type = "response" THEN 1 ELSE 0)) =>
         reply.handed = <<>>

\* C10 as stated: on a socket for a known id the first server message is
\* "connected"; each chat message gets one "processing" and then one
\* "response" or "error" before the next message is read; after a reset the
\* next query gets an empty history.
C10_AsStated ==
    \A s \in Sockets :
        /\ (ws[s].collection_name # None /\ ws[s].first # "none") =>
             ws[s].first = "connected"
        /\ WsProtocol(s)

\* C10 amended: the first message is "connected" when the query engine
\* initialises; when its initialisation raises, the only message is one
\* "error" and the socket is closed.  The rest as stated.
C10_WebSocketProtocol ==
    \A s \in Sockets :
        /\ ws[s].rag # None => ws[s].first = "connected"
        /\ (ws[s].collection_name # None /\ ws[s].rag = None
            /\ ws[s].state # "idle") =>
             /\ ws[s].state = "closed"
             /\ ws[s].sent = <<ws_message("error", "Failed to initialize chat")>>
             /\ ws[s].last_in = "none"
        /\ WsProtocol(s)

\* a chat answered with an empty history handed over, after earlier
\* exchanges on the same connection were reset
C10_Witness ==
    /\ ws[1].first = "connected"
    /\ ws[1].state = "open"
    /\ ws[1].last_in = "chat"
    /\ ws[1].sent[2].type = "response"
    /\ reply.op = "websocket_chat"
    /\ reply.event = "query"
    /\ reply.handed = <<>>
    /\ exchanges.ws[1] = 1

(***************************************************************************)
(* Properties of the query engine and the command-line tools.              *)
(***************************************************************************)
\* C11: a failing chat-completion call never makes RAGQuerySystem.query
\* raise: query returns the error string with an empty reference list (the
\* bare string when references were not requested), and POST /chat and the
\* WebSocket deliver it as a normal response.
C11_LlmFailureIsAnAnswer ==
    /\ [](\A n \in 1..MaxLlmTurns :
            /\ query(n, "llm_raises", TRUE) = <<llm_error(n), <<>>>>
            /\ query(n, "llm_raises", FALSE) = llm_error(n))
    /\ [][("llm_failed" \in DOMAIN reply' /\ reply'.llm_failed) =>
            IF reply'.op = "chat"
            THEN /\ reply'.status = 200
                 /\ reply'.response.prefix = "Error calling LLM: "
                 /\ reply'.references = <<>>
            ELSE LET sent == ws'[reply'.socket].sent
                 IN  /\ Len(sent) = 2
                     /\ sent[1].type = "processing"
                     /\ sent[2].type = "response"
                     /\ sent[2].message.prefix = "Error calling LLM: "
                     /\ sent[2].references = <<>>]_vars

\* the LLM failed on the second question of a WebSocket conversation
C11_Witness ==
    /\ reply.op = "websocket_chat"
    /\ reply.event = "query"
    /\ reply.llm_failed
    /\ ws[1].sent[2].type = "response"
    /\ ws[1].sent[2].message = llm_error(2)
    /\ Len(ws[1].conversation_history) = 4
    /\ ws[1].conversation_history[4].content = llm_error(2)

ExtractionRuns == {i \in 1..Len(pipeline.stages) : pipeline.stages[i].stage = "extract"}

IndexingRuns == {i \in 1..Len(pipeline.stages) : pipeline.stages[i].stage = "index"}

ChatStarted == pipeline.pc = "chat" \/ cli.state # "start"

\* C12 as stated: in the unified pipeline CLI the chat starts only if
\* extraction was skipped with the output directory present or succeeded,
\* and indexing was skipped or succeeded; indexing is never attempted after
\* a failed extraction; with both skip flags set no stage runs before the
\* chat.
C12_AsStated ==
    /\ ChatStarted =>
         /\ \/ /\ pipeline.skip_extraction
               /\ ExtractionRuns = {}
               /\ pipeline.output # "absent"
            \/ \E i \in ExtractionRuns : pipeline.stages[i].ok
         /\ \/ pipeline.skip_indexing /\ IndexingRuns = {}
            \/ \E i \in IndexingRuns : pipeline.stages[i].ok
    /\ \A i \in IndexingRuns :
         \A j \in ExtractionRuns : j < i => pipeline.stages[j].ok
    /\ (pipeline.skip_extraction /\ pipeline.skip_indexing) =>
         pipeline.stages = <<>>

\* C12 amended: as stated, except that with both skip flags set the chat
\* starts at once, whether or not the output directory exists; the
\* directory is checked only when extraction alone is skipped.
C12_PipelineGating ==
    /\ ChatStarted =>
         \/ pipeline.skip_extraction /\ pipeline.skip_indexing
         \/ /\ \/ /\ pipeline.skip_extraction
                  /\ ExtractionRuns = {}
                  /\ pipeline.output # "absent"
               \/ \E i \in ExtractionRuns : pipeline.stages[i].ok
            /\ \/ pipeline.skip_indexing /\ IndexingRuns = {}
               \/ \E i \in IndexingRuns : pipeline.stages[i].ok
    /\ \A i \in IndexingRuns :
         \A j \in ExtractionRuns : j < i => pipeline.stages[j].ok
    /\ (pipeline.skip_extraction /\ pipeline.skip_indexing) =>
         pipeline.stages = <<>>

\* extraction was skipped over an existing output, indexing ran and
\* succeeded, and the chat loop is running
C12_Witness ==
    /\ pipeline.entry = "main"
    /\ pipeline.skip_extraction
    /\ ~pipeline.skip_indexing
    /\ pipeline.stages = <<[stage |-> "index", ok |-> TRUE]>>
    /\ pipeline.pc = "chat"
    /\ cli.state = "running"

BlankLines == {"", "  "}

QuietCommands == {" help ", "help", "clear", "status", "history"}

VerboseCommands == {"verbose"}

ResetCommands == {"reset", "Reset"}

QuitCommands == {"quit", "exit", "q", "QUIT"}

\* history h2 is history h with the n-th exchange appended (and the oldest
\* entries dropped once the cap is reached)
ExchangeAppended(h, h2, n) ==
    /\ Len(h2) >= 2
    /\ Len(h2) - 2 <= Len(h)
    /\ h2[Len(h2) - 1] = user_entry(n)
    /\ h2[Len(h2)].role = "assistant"
    /\ SubSeq(h2, 1, Len(h2) - 2) = SubSeq(h, Len(h) - (Len(h2) - 2) + 1, Len(h))
    /\ Len(h) + 2 <= HistoryCap => Len(h2) = Len(h) + 2

\* what both readings of C13 say of commands, blank lines and the end of
\* the loop, for the line the step has read
CliCommandRules ==
    /\ (reply'.op = "cli" /\ reply'.event = "line") =>
         /\ reply'.line \in BlankLines \cup QuietCommands \cup VerboseCommands =>
              /\ ~reply'.queried
              /\ cli'.conversation_history = cli.conversation_history
              /\ cli'.state = "running"
              /\ cli'.verbose = IF reply'.line \in VerboseCommands
                                THEN ~cli.verbose ELSE cli.verbose
         /\ reply'.line \in ResetCommands =>
              /\ ~reply'.queried
              /\ cli'.conversation_history = <<>>
              /\ cli'.state = "running"
         /\ reply'.line \in QuitCommands =>
              /\ ~reply'.queried
              /\ cli'.conversation_history = cli.conversation_history
              /\ cli'.state = "ended"
         /\ reply'.line \notin BlankLines \cup QuietCommands \cup VerboseCommands
                               \cup ResetCommands \cup QuitCommands =>
              /\ reply'.queried
              /\ reply'.n_results = IF cli.verbose THEN 5 ELSE 3
              /\ cli'.state = "running"
    \* no line is processed once the loop has ended
    /\ cli.state = "ended" => cli' = cli

IsQuestionStep ==
    /\ reply'.op = "cli"
    /\ reply'.event = "line"
    /\ reply'.queried

\* C13 as stated: blank lines and help, status, verbose, history, clear
\* never query and never change the history; reset empties it; quit, exit
\* or q ends the loop; every other line causes one query with n_results 5
\* (verbose) or 3 and appends one user and one assistant entry.
C13_AsStated ==
    [][/\ CliCommandRules
       /\ IsQuestionStep =>
            ExchangeAppended(cli.conversation_history,
                             cli'.conversation_history, exchanges.cli + 1)]_vars

\* C13 amended: as stated, but the two entries are appended only when the
\* query returns; when it raises, the history is left as it was and the
\* loop goes on.
C13_CliCommands ==
    [][/\ CliCommandRules
       /\ (IsQuestionStep /\ ~reply'.raised) =>
            ExchangeAppended(cli.conversation_history,
                             cli'.conversation_history, exchanges.cli + 1)
       /\ (IsQuestionStep /\ reply'.raised) =>
            cli'.conversation_history = cli.conversation_history]_vars

\* in verbose mode, a line that only starts with a command was answered as
\* a question
C13_Witness ==
    /\ reply.op = "cli"
    /\ reply.event = "line"
    /\ reply.line = "quit now"
    /\ reply.queried
    /\ ~reply.raised
    /\ reply.n_results = 5
    /\ Len(cli.conversation_history) = 4
    /\ cli.state = "running"


(***************************************************************************)
(* Properties of the bounding-box operations.                              *)
(***************************************************************************)
MergeCalls == {"BoundingBoxOperations.merge", "BoundingBoxCalculator.merge"}

AdjacencyCalls ==
    {"BoundingBoxOperations.are_adjacent", "BoundingBoxCalculator.are_adjacent"}

SizeCalls ==
    {"PDFElementExtractor._is_valid_figure_size",
     "HybridPDFExtractor._should_keep_figure"}

\* the region a list of corner points spans, in canonical names
Span(points) == BoundingBox(points[1][1], points[1][2], points[3][1], points[3][2])

ArgA == Span(bbox_call.args[1])

ArgB == Span(bbox_call.args[2])

\* the box a merge call returned, in canonical names
MergedBox ==
    IF bbox_call.call = "BoundingBoxCalculator.merge"
    THEN to_standard(bbox_call.result)
    ELSE bbox_call.result

\* what the same implementation returns for the arguments swapped
SwappedMerge ==
    IF bbox_call.call = "BoundingBoxCalculator.merge"
    THEN to_standard(legacy_merge(extract_from_element(bbox_call.args[2]),
                                  extract_from_element(bbox_call.args[1])))
    ELSE merge(create_from_element(bbox_call.args[2]),
               create_from_element(bbox_call.args[1]))

\* C14: merge(A,B) equals merge(B,A); its edges are the coordinate-wise
\* minimum of the two minima and maximum of the two maxima; A and B are both
\* contained in it with tolerance 0; the canonical and the legacy-named
\* implementation return the same box.
C14_MergeIsUnion ==
    bbox_call.call \in MergeCalls =>
        /\ MergedBox = SwappedMerge
        /\ MergedBox.x_min = min(ArgA.x_min, ArgB.x_min)
        /\ MergedBox.y_min = min(ArgA.y_min, ArgB.y_min)
        /\ MergedBox.x_max = max(ArgA.x_max, ArgB.x_max)
        /\ MergedBox.y_max = max(ArgA.y_max, ArgB.y_max)
        /\ is_contained_within(ArgA, MergedBox, 0)
        /\ is_contained_within(ArgB, MergedBox, 0)
        /\ MergedBox = merge(ArgA, ArgB)
        /\ MergedBox = to_standard(legacy_merge(extract_from_element(bbox_call.args[1]),
                                               extract_from_element(bbox_call.args[2])))

\* two boxes were merged into a box that is neither of them
C14_Witness ==
    /\ bbox_call.call = "BoundingBoxCalculator.merge"
    /\ bbox_call.args = <<points_of(pt(0), pt(100), pt(200), pt(300)),
                          points_of(pt(100), pt(0), pt(300), pt(200))>>
    /\ bbox_call.result = BoundingBoxLegacy(pt(0), pt(0), pt(300), pt(300))

\* the gap on an axis, as the claim defines it
Gap(a_min, a_max, b_min, b_max) == min(abs(a_min - b_max), abs(b_min - a_max))

Overlap(a_min, a_max, b_min, b_max) == ~(a_max < b_min \/ b_max < a_min)

Adjacent(A, B) ==
    \/ /\ Gap(A.y_min, A.y_max, B.y_min, B.y_max) <= pt(100)
       /\ Overlap(A.x_min, A.x_max, B.x_min, B.x_max)
    \/ /\ Gap(A.x_min, A.x_max, B.x_min, B.x_max) <= pt(100)
       /\ Overlap(A.y_min, A.y_max, B.y_min, B.y_max)

\* B lies below A, with overlapping x-ranges
StackedArgs ==
    /\ ArgA.y_max <= ArgB.y_min
    /\ Overlap(ArgA.x_min, ArgA.x_max, ArgB.x_min, ArgB.x_max)

\* C15: with max_gap 100 the adjacency test is true exactly when (vertical
\* gap <= 100 and the x-extents overlap) or (horizontal gap <= 100 and the
\* y-extents overlap); it is symmetric; stacked boxes with overlapping
\* x-ranges are adjacent at a gap of exactly 100 and not at any larger gap;
\* the canonical and the legacy implementation agree.
C15_Adjacency ==
    bbox_call.call \in AdjacencyCalls =>
        /\ bbox_call.result = Adjacent(ArgA, ArgB)
        /\ bbox_call.result = Adjacent(ArgB, ArgA)
        /\ (StackedArgs /\ ArgB.y_min - ArgA.y_max = pt(100)) => bbox_call.result = TRUE
        /\ (StackedArgs /\ ArgB.y_min - ArgA.y_max > pt(100)) => bbox_call.result = FALSE
        /\ are_adjacent(ArgA, ArgB, pt(MAX_ADJACENCY_GAP))
             = legacy_are_adjacent(extract_from_element(bbox_call.args[1]),
                                   extract_from_element(bbox_call.args[2]))

\* stacked boxes exactly 100 apart were found adjacent
C15_Witness ==
    /\ bbox_call.call = "BoundingBoxOperations.are_adjacent"
    /\ bbox_call.args = <<points_of(pt(0), pt(0), pt(200), pt(100)),
                          points_of(pt(100), pt(200), pt(300), pt(300))>>
    /\ bbox_call.result = TRUE

\* the candidate figure has a bounding box
CandidateHasBox == bbox_call.args[1] # <<>>

\* the sides of the candidate as the called check receives them: the box's
\* own in the single-page extractor, the serialized ones in the hybrid one
CandidateWidth ==
    IF bbox_call.call = "HybridPDFExtractor._should_keep_figure"
    THEN figure_record(bbox_call.args[1]).bounding_box.width
    ELSE Span(bbox_call.args[1]).x_max - Span(bbox_call.args[1]).x_min

CandidateHeight ==
    IF bbox_call.call = "HybridPDFExtractor._should_keep_figure"
    THEN figure_record(bbox_call.args[1]).bounding_box.height
    ELSE Span(bbox_call.args[1]).y_max - Span(bbox_call.args[1]).y_min

\* C16: a candidate figure that has a bounding box is rejected exactly when
\* (width < 100 and height < 100) or area < 20000, by the single-page
\* extractor's size check and by the hybrid extractor's size filter; a 50x50
\* figure is rejected and a 50x500 figure is kept.
C16_FigureSize ==
    (bbox_call.call \in SizeCalls /\ CandidateHasBox) =>
        /\ bbox_call.result = FALSE <=>
              \/ CandidateWidth < pt(100) /\ CandidateHeight < pt(100)
              \/ square_points(CandidateWidth, CandidateHeight) < 20000
        /\ (CandidateWidth = pt(50) /\ CandidateHeight = pt(50))
              => bbox_call.result = FALSE
        /\ (CandidateWidth = pt(50) /\ CandidateHeight = pt(500))
              => bbox_call.result = TRUE

\* the single-page extractor kept a 50x500 figure
C16_Witness ==
    /\ bbox_call.call = "PDFElementExtractor._is_valid_figure_size"
    /\ bbox_call.args = <<points_of(pt(0), pt(0), pt(50), pt(500))>>
    /\ bbox_call.result = TRUE


(***************************************************************************)
(* Properties of the single-page extraction pass.                          *)
(***************************************************************************)
Processed == element_pass.pc = "processed"

\* the records of the pass to which the element at an index contributed:
\* those appended at its own turn and those built from it
RecordsFrom(index) ==
    {n \in 1..Len(element_pass.emitted) :
        \/ element_pass.emitted[n].index = index
        \/ element_pass.emitted[n].element = index}

\* C17: in one pass every detected visual element contributes to at most one
\* figure/table record: the target of a merge is not emitted again, neither
\* on its own nor as the target of a second merging element, whatever the
\* order of the merging element and its target in the sequence.
C17_AtMostOneRecord ==
    Processed =>
        \A k \in 1..Len(element_pass.preprocessed) :
            Cardinality(RecordsFrom(element_pass.preprocessed[k].index)) <= 1


\* the preprocessed entry of the element at an index
InfoOf(index) ==
    element_pass.preprocessed[
        CHOOSE k \in 1..Len(element_pass.preprocessed) :
            element_pass.preprocessed[k].index = index]

\* the caption text the caption search finds for the element at an index
CaptionOf(index) ==
    find_for_element(element_pass.elements, index, InfoOf(index).page).text

\* the records produced for a pair: the turn of an element A with a merge
\* target B
PairRecords ==
    {n \in 1..Len(element_pass.emitted) :
        /\ element_pass.emitted[n].index # element_pass.emitted[n].element
        /\ InfoOf(element_pass.emitted[n].index).merge_with
             = element_pass.emitted[n].element}

\* the serialized box as a canonical box
DictBox(bounding_box) ==
    BoundingBox(bounding_box.x0, bounding_box.y0, bounding_box.x1, bounding_box.y1)

PairBoxContainsMerge(n) ==
    LET note == element_pass.emitted[n]
    IN  is_contained_within(
            merge(to_standard(InfoOf(note.index).bbox),
                  to_standard(InfoOf(note.element).bbox)),
            DictBox(note.metadata.bounding_box), 0)

\* C18: the record produced for an uncaptioned element A merged with its
\* captioned neighbour B carries B's caption text, and its bounding box
\* contains the merge of A's and B's boxes.
C18_PairAdoptsCaption ==
    Processed =>
        \A n \in PairRecords :
            /\ element_pass.emitted[n].metadata.caption
                 = CaptionOf(element_pass.emitted[n].element)
            /\ PairBoxContainsMerge(n)

\* what the pass produces for a pair: the caption found from A's own index,
\* which is no caption, over the merged box
C18_Observed ==
    Processed =>
        \A n \in PairRecords :
            /\ element_pass.emitted[n].metadata.caption = no_text
            /\ element_pass.emitted[n].metadata.caption
                 = CaptionOf(element_pass.emitted[n].index)
            /\ truthy(CaptionOf(element_pass.emitted[n].element))
            /\ PairBoxContainsMerge(n)

\* a record for a pair was produced
C18_PairProduced == Processed /\ PairRecords # {}


\* the box of a preprocessed entry in canonical names, whichever
\* implementation built it
CanonBox(info) ==
    IF element_pass.impl = "ElementProcessor" THEN to_standard(info.bbox) ELSE info.bbox

\* the caption text the running implementation finds for an entry
CaptionFor(info) ==
    IF element_pass.impl = "ElementProcessor"
    THEN find_for_element(element_pass.elements, info.index, info.page).text
    ELSE find_caption_and_description(element_pass.elements, info.index, info.page).text

ContainmentDone == element_pass.pc \in {"contained", "preprocessed", "processed"}

PreprocessingDone == element_pass.pc \in {"preprocessed", "processed"}

Positions == 1..Len(element_pass.preprocessed)

\* C19: after the containment and duplicate-caption pass no non-skipped
\* element's box is contained (tolerance 5.0) in the box of another
\* non-skipped element on the same page, in both implementations.
C19_NoNestedSurvivors ==
    ContainmentDone =>
        \A i \in Positions, j \in Positions :
            LET A == element_pass.preprocessed[i]
                B == element_pass.preprocessed[j]
            IN  (i # j /\ ~A.skip /\ ~B.skip /\ A.page = B.page) =>
                    ~is_contained_within(CanonBox(A), CanonBox(B), pt(5))

\* the pass skipped an element that lies in another one only within the
\* tolerance, and left two elements of that page
C19_Witness ==
    /\ element_pass.pc = "contained"
    /\ element_pass.impl = "ElementPreprocessor"
    /\ \E i \in Positions, j \in Positions, k \in Positions :
          LET A == element_pass.preprocessed[i]
              B == element_pass.preprocessed[j]
              C == element_pass.preprocessed[k]
          IN  /\ A.skip /\ ~B.skip /\ ~C.skip /\ j # k
              /\ A.page = B.page /\ B.page = C.page
              /\ is_contained_within(CanonBox(A), CanonBox(B), pt(5))
              /\ ~is_contained_within(CanonBox(A), CanonBox(B), 0)

\* C20: after preprocessing every element A whose merge_with is set is not
\* skipped and has no caption of its own, and merge_with is the original
\* index of a different, non-skipped element B on the same page that has a
\* caption, is adjacent to A (gap 100.0) and has no merge target itself; an
\* element that has a caption never receives a merge target.
C20_MergeTargets ==
    PreprocessingDone =>
        \A i \in Positions :
            LET A == element_pass.preprocessed[i]
            IN  /\ A.merge_with # no_index =>
                    /\ ~A.skip
                    /\ ~truthy(CaptionFor(A))
                    /\ \E j \in Positions :
                          LET B == element_pass.preprocessed[j]
                          IN  /\ B.index = A.merge_with
                              /\ j # i
                              /\ B.index # A.index
                              /\ ~B.skip
                              /\ B.page = A.page
                              /\ truthy(CaptionFor(B))
                              /\ Adjacent(CanonBox(A), CanonBox(B))
                              /\ B.merge_with = no_index
                /\ truthy(CaptionFor(A)) => A.merge_with = no_index

\* an uncaptioned element received its captioned neighbour as merge target
\* while another element of the sequence did not
C20_Witness ==
    /\ element_pass.pc = "preprocessed"
    /\ element_pass.impl = "ElementPreprocessor"
    /\ \E i \in Positions, j \in Positions :
          /\ element_pass.preprocessed[i].merge_with # no_index
          /\ element_pass.preprocessed[j].merge_with = no_index
          /\ ~element_pass.preprocessed[j].skip
          /\ ~truthy(CaptionFor(element_pass.preprocessed[j]))


(***************************************************************************)
(* Properties of the references in the combined text.                      *)
(***************************************************************************)
\* every reference of the worker's text to the page-local file of one of the
\* section's items, with one of the extensions, now names that item's global
\* file
ReferencesRewritten(given, section, field, dir, kind, extensions) ==
    \A i \in 1..Len(given.text_content), j \in 1..Len(section[field]),
       ext \in extensions :
        given.text_content[i]
            = fmt_path(dir, 1, kind, section[field][j]._page_local_index, ext)
        => section.text_content[i]
            = fmt_path(dir, section.page, kind, section[field][j].index, ext)

\* C21: after combine_page_results every reference in a section's text to
\* the page-local file of one of its figures (page1_fig{local}.png) or
\* tables (page1_table{local}.png, page1_table{local}.csv) names the global
\* file of that same figure or table.
C21_ReferencesRewritten ==
    pc = "combined" =>
        LET structure == combined_metadata.structure
            given == InputSections(total_pages)
        IN  \A k \in 1..Len(structure) :
                /\ ReferencesRewritten(given[k], structure[k], "figures",
                                       "figures", "fig", {"png"})
                /\ ReferencesRewritten(given[k], structure[k], "tables",
                                       "tables", "table", {"png", "csv"})

\* the image references alone
C21_ImageReferences ==
    pc = "combined" =>
        LET structure == combined_metadata.structure
            given == InputSections(total_pages)
        IN  \A k \in 1..Len(structure) :
                /\ ReferencesRewritten(given[k], structure[k], "figures",
                                       "figures", "fig", {"png"})
                /\ ReferencesRewritten(given[k], structure[k], "tables",
                                       "tables", "table", {"png"})

(***************************************************************************)
(* Properties of the consolidation.                                        *)
(***************************************************************************)
BookkeepingKeys == {"_page_local_index", "_global_index"}

\* the figure and table records of the combined structure
CombinedItems ==
    items_of(combined_metadata.structure, "figures")
    \cup items_of(combined_metadata.structure, "tables")

\* a step leaves every file of figures/ and tables/ as it was
FilesKept ==
    \A f \in DOMAIN disk.files :
        f \in DOMAIN disk'.files /\ disk'.files[f] = disk.files[f]

\* C22: after consolidate_visual_elements no figure or table record of the
\* combined structure carries _page_local_index or _global_index, and no
\* step replaces a file that already exists in the document-level figures/
\* and tables/ directories.
C22_KeysStrippedNoOverwrite ==
    /\ [](pc = "consolidated" =>
            \A item \in CombinedItems : DOMAIN item \cap BookkeepingKeys = {})
    /\ [][FilesKept]_vars

\* consolidated into a reused directory: one record's destination was there
\* already and kept the earlier content, another record's file was copied
C22_Witness ==
    /\ pc = "consolidated"
    /\ \E kept, copied \in CombinedItems :
        /\ kept.path \in DOMAIN disk.files
        /\ disk.files[kept.path] = stale
        /\ copied.path \in DOMAIN disk.files
        /\ disk.files[copied.path].origin = "copy"
        /\ copied.index > MaxItems

\* the worker of the table's page wrote table{local}.csv
CsvProduced(table) ==
    page_path(table.page, "tables", "table", table._page_local_index, "csv")
        \in disk.page_files

\* C23: in the combined metadata a table record carries csv_path only when
\* a CSV file was produced for that table.
C23_CsvPathOnlyWithCsv ==
    pc = "combined" =>
        \A table \in items_of(combined_metadata.structure, "tables") :
            "csv_path" \in DOMAIN table => CsvProduced(table)

(***************************************************************************)
(* Properties of the caption searches.                                     *)
(***************************************************************************)
SearchedElements == bbox_call.args[1]

SearchTarget == bbox_call.args[2]

SearchPage == bbox_call.args[3]

\* the indices the search visits
SearchWindow ==
    {i \in DOMAIN SearchedElements :
        /\ i # SearchTarget
        /\ i >= SearchTarget - CAPTION_SEARCH_RANGE
        /\ i <= SearchTarget + CAPTION_SEARCH_RANGE}

\* the kind of caption an element is by its class and text, "unknown" if none
CaptionKind(element) ==
    IF is_table_caption(element.text) THEN "table"
    ELSE IF element.type = "Title" /\ is_figure_caption(element.text) THEN "figure"
    ELSE "unknown"

\* the visited elements that the detector takes for a caption when it has none
Qualifying ==
    {i \in SearchWindow :
        /\ SearchedElements[i].page_number \in {0, SearchPage}
        /\ CaptionKind(SearchedElements[i]) # "unknown"}

\* the least index of a set
lowest(indices) == CHOOSE i \in indices : \A j \in indices : i <= j

DetectorCalled == bbox_call.call = "CaptionDetector.find_caption_and_description"

ExtractorCalled == bbox_call.call = "CaptionExtractor.find_for_element"

C25_SameResult ==
    ExtractorCalled =>
        LET other == find_caption_and_description(SearchedElements, SearchTarget,
                                                  SearchPage)
        IN  /\ truthy(bbox_call.result.text) = truthy(other.text)
            /\ truthy(bbox_call.result.text) => bbox_call.result.text = other.text
            /\ truthy(bbox_call.result.description) = truthy(other.description)
            /\ truthy(bbox_call.result.description)
                   => bbox_call.result.description = other.description
            /\ bbox_call.result.caption_type = other.caption_type

(***************************************************************************)
(* Properties of the classification.                                       *)
(***************************************************************************)
ClassifyCalled == bbox_call.call = "ElementClassifier.classify"

Classified == SearchedElements[SearchTarget]

\* the type of the caption the search of the simple extractor finds
FoundCaptionType ==
    find_for_element(SearchedElements, SearchTarget, SearchPage).caption_type

\* the only captions around are Titles of the page that hold both a table
\* keyword and a figure keyword
OnlyTitlesWithBothKeywords ==
    /\ Qualifying # {}
    /\ \A i \in Qualifying :
        /\ SearchedElements[i].type = "Title"
        /\ SearchedElements[i].page_number = SearchPage
        /\ is_table_caption(SearchedElements[i].text)
        /\ is_figure_caption(SearchedElements[i].text)

\* the size/description and diagram-pattern heuristics
ByCharacteristics ==
    LET description ==
            find_for_element(SearchedElements, SearchTarget, SearchPage).description
        panel == /\ Classified.points = points_of(pt(0), pt(0), pt(1000), pt(700))
                 /\ truthy(description)
                 /\ has_panel_keyword(description)
    IN  IF panel \/ Classified.text = DiagramLabels THEN "figure" ELSE "table"

\* C26: ElementClassifier.classify returns figure for an Image or an element
\* of category Image/Figure whatever surrounds it; for a Table it returns
\* table with a table-typed caption and figure with a figure-typed caption,
\* a Title with both a table and a figure keyword counting as table caption,
\* and the result of the size/description and diagram heuristics with no
\* caption; for every other type it returns unknown.
C26_Classification ==
    ClassifyCalled =>
        /\ Classified.type \in {"Image", "Figure"} => bbox_call.result = "figure"
        /\ Classified.type = "Table" =>
            /\ FoundCaptionType = "table" => bbox_call.result = "table"
            /\ FoundCaptionType = "figure" => bbox_call.result = "figure"
            /\ FoundCaptionType = "unknown" => bbox_call.result = ByCharacteristics
            /\ OnlyTitlesWithBothKeywords => bbox_call.result = "table"
        /\ Classified.type \notin {"Image", "Figure", "Table"}
               => bbox_call.result = "unknown"

\* a Table with diagram labels next to a Title with both keywords is a table
C26_Witness ==
    /\ ClassifyCalled
    /\ Classified.type = "Table"
    /\ Classified.text = DiagramLabels
    /\ OnlyTitlesWithBothKeywords
    /\ bbox_call.result = "table"

(***************************************************************************)
(* Properties of the indexer.                                              *)
(***************************************************************************)
IndexCalled == bbox_call.call = "PDFMetadataIndexer.index_documents"

IndexedSections == bbox_call.args[1].structure

RECURSIVE Concatenated(_)
Concatenated(batches) ==
    IF batches = <<>> THEN <<>> ELSE Head(batches) \o Concatenated(Tail(batches))

\* everything added to the collection, in the order of the calls
Sent == Concatenated(bbox_call.result.added)

\* the place of a document in the order sections-then-figures-then-tables
TypeRank(type) ==
    CASE type = "section" -> 0 [] type = "figure" -> 1 [] type = "table" -> 2

Before(first, second) ==
    \/ first.section_index < second.section_index
    \/ /\ first.section_index = second.section_index
       /\ \/ TypeRank(first.type) < TypeRank(second.type)
          \/ /\ first.type = second.type
             /\ first.index < second.index

\* the indices of the documents of one type, in the order sent
SentOf(type) ==
    LET of_type(document) == document.type = type
        chosen == SelectSeq(Sent, of_type)
    IN  [i \in 1..Len(chosen) |-> chosen[i].index]

IndicesOf(items) == [i \in 1..Len(items) |-> items[i].index]

NonBlankSections ==
    LET non_blank(section) == section.text_content \notin {"", "  "}
    IN  IndicesOf(SelectSeq(IndexedSections, non_blank))

Survivors(page) ==
    {k \in Positions :
        element_pass.preprocessed[k].page = page /\ ~element_pass.preprocessed[k].skip}

\* C28: the containment and duplicate-caption pass never skips every
\* candidate of a page: a page that has candidates keeps at least one, also
\* when the boxes of its candidates lie in each other within the tolerance.
C28_SomeCandidateSurvives ==
    ContainmentDone =>
        \A i \in Positions : Survivors(element_pass.preprocessed[i].page) # {}

\* two candidates of a page lie in each other's box; one was skipped and
\* the other is the only survivor of the page
C28_Witness ==
    /\ element_pass.pc = "contained"
    /\ \E i \in Positions, j \in Positions :
          LET A == element_pass.preprocessed[i]
              B == element_pass.preprocessed[j]
          IN  /\ i # j
              /\ A.page = B.page
              /\ is_contained_within(CanonBox(A), CanonBox(B), pt(5))
              /\ is_contained_within(CanonBox(B), CanonBox(A), pt(5))
              /\ A.skip
              /\ Survivors(A.page) = {j}

(***************************************************************************)
(* Histories of the channels of one document.                              *)
(***************************************************************************)
\* the history of a channel that answered n exchanges since it was empty
OwnHistory(n) ==
    [i \in 1..(2 * n) |->
        IF i % 2 = 1 THEN user_entry((i + 1) \div 2) ELSE assistant_entry(i \div 2)]

\* the history POST /chat keeps in the session
StoredHistory == get(sessions[1], "conversation_history", <<>>)

\* what a step may touch: a socket's step neither the session nor another
\* socket, a POST /chat no socket; a socket's query is handed the socket's
\* own history
OwnChannelOnly ==
    /\ reply'.op = "websocket_chat" =>
        /\ sessions' = sessions
        /\ \A t \in Sockets \ {reply'.socket} : ws'[t] = ws[t]
        /\ reply'.event = "query" =>
               reply'.handed = ws[reply'.socket].conversation_history
    /\ reply'.op = "chat" => ws' = ws

\* C29: chat turns and resets on a WebSocket neither read nor change the
\* history stored in the session for POST /chat, POST /chat turns change no
\* socket's history, and two sockets on the same document keep histories
\* independent of each other: every channel's history is that of its own
\* exchanges, under every interleaving.
C29_IndependentHistories ==
    /\ [](/\ StoredHistory = OwnHistory(exchanges.post[1])
          /\ \A s \in Sockets :
                ws[s].conversation_history = OwnHistory(exchanges.ws[s]))
    /\ [][OwnChannelOnly]_vars

\* POST /chat has answered once and socket 1 twice while socket 2, open on
\* the same document, has just been reset
C29_Witness ==
    /\ Len(StoredHistory) = 2
    /\ Len(ws[1].conversation_history) = 4
    /\ ws[1].state = "open"
    /\ ws[1].doc = ws[2].doc
    /\ ws[2].state = "open"
    /\ ws[2].last_in = "reset"
    /\ ws[2].conversation_history = <<>>

(***************************************************************************)
(* Citation numbers.                                                       *)
(***************************************************************************)
QueryReturned == bbox_call.call = "RAGQuerySystem.query"

Announced == bbox_call.result.prompt

References == bbox_call.result.references

\* C30: when a query returns references, the numbers announced in the
\* prompt run from 1, the text sections first, and the item announced as
\* [[ref:N]] is the item of the N-th record of the returned reference list.
C30_CitationIsPosition ==
    (QueryReturned /\ bbox_call.args[2] = "ok") =>
        /\ Len(Announced) = Len(References)
        /\ \A k \in 1..Len(Announced) :
            /\ Announced[k].ref_id = k
            /\ References[Announced[k].ref_id].text_preview = Announced[k].cites
            /\ References[Announced[k].ref_id].page_number
                   = Announced[k].cites.document
            /\ (Announced[k].part = "text")
                   = (bbox_call.args[1][Announced[k].cites.document] = "section")
            /\ k < Len(Announced) =>
                   (Announced[k].part = "visual" => Announced[k + 1].part = "visual")

\* a figure retrieved before a section is cited after it, and its number
\* is its place in the list
C30_Witness ==
    /\ QueryReturned
    /\ Len(References) >= 3
    /\ \E k \in 1..Len(Announced) :
        /\ Announced[k].part = "visual"
        /\ Announced[k].cites.document = 1
        /\ k > 1
        /\ References[k].id.prefix = "visual_"
        /\ References[k].text_preview.document = 1

====
